---- MODULE Spec2Model ----
(***************************************************************************)
(* Verification model of the early-boot kernel core (ulmer-a/kernel).      *)
(*                                                                         *)
(* Part E: the buddy allocator of allocators/src/lib.rs.  The allocator    *)
(* state is the three fields of BuddyAllocator (free_lists, total,         *)
(* allocated); every public method is one action.  Values of type usize    *)
(* are UsizeBits wide.  The build is either a debug build (debug           *)
(* assertions and overflow checks on) or a release build (both off); the   *)
(* model carries the build as a variable fixed at construction, and a      *)
(* panic as the flag `panicked`, after which nothing runs.                 *)
(*                                                                         *)
(* Part A: the Multiboot header builder of multiboot/src/header.rs and the *)
(* header of src/boot/multiboot.rs.  Part B: the boot-info handshake and   *)
(* accessors of multiboot/src/lib.rs and src/boot.  Part C: the memory-map *)
(* iterator of multiboot/src/mmap.rs.  A u32 is the set of its one bits,   *)
(* so that 32-bit arithmetic is exact.  Each part has its own              *)
(* specification; the objects of the other parts are then Absent.          *)
(***************************************************************************)
EXTENDS Integers, FiniteSets, Sequences, Bags, TLC

\* Number of size classes of the modelled BuddyAllocator<ORDER>.
ORDER == 3
\* Width of usize in the model (ORDER < UsizeBits, so that 1 << ORDER fits).
UsizeBits == 5
\* Number of add_range calls of one run.
MaxRanges == 2
\* Number of allocations outstanding at the same time.
MaxOutstanding == 1
\* Number of allocations a client keeps without freeing any.
MaxKept == 3

UsizeMax == 2^UsizeBits - 1
\* Option<usize>::None; Some(a) is modelled as a itself.
None == -1

Slots == 0..(ORDER - 1)

-----------------------------------------------------------------------------
(* usize arithmetic of core, as the allocator uses it *)

min(a, b) == IF a <= b THEN a ELSE b
max(a, b) == IF a >= b THEN a ELSE b

RECURSIVE BitAnd(_, _)
BitAnd(a, b) ==
    IF a = 0 \/ b = 0 THEN 0
    ELSE (a % 2) * (b % 2) + 2 * BitAnd(a \div 2, b \div 2)

RECURSIVE BitXor(_, _)
BitXor(a, b) ==
    IF a = 0 THEN b
    ELSE IF b = 0 THEN a
    ELSE ((a + b) % 2) + 2 * BitXor(a \div 2, b \div 2)

BitNot(a) == UsizeMax - a

\* usize::ilog2, for x > 0: floor of the binary logarithm.
RECURSIVE ilog2(_)
ilog2(x) == IF x <= 1 THEN 0 ELSE 1 + ilog2(x \div 2)

\* usize::trailing_zeros: the bit width for 0.
RECURSIVE trailing_zeros(_)
trailing_zeros(x) ==
    IF x = 0 THEN UsizeBits
    ELSE IF x % 2 = 1 THEN 0
    ELSE 1 + trailing_zeros(x \div 2)

\* The smallest power of two >= x as a mathematical integer (1 for x = 0).
RECURSIVE CeilPow2(_)
CeilPow2(x) == IF x <= 1 THEN 1 ELSE 2 * CeilPow2((x + 1) \div 2)

\* usize::next_power_of_two: when the result does not fit the word it panics
\* with overflow checks on and wraps to 0 with them off.
next_power_of_two(x, checks) ==
    IF CeilPow2(x) <= UsizeMax
    THEN [value |-> CeilPow2(x), panic |-> FALSE]
    ELSE [value |-> 0, panic |-> checks]

\* a + b on usize: panics on overflow with overflow checks on, wraps otherwise.
AddUsize(a, b, checks) ==
    IF a + b <= UsizeMax
    THEN [value |-> a + b, panic |-> FALSE]
    ELSE [value |-> (a + b) % (UsizeMax + 1), panic |-> checks]

\* a - b on usize: panics on underflow with overflow checks on, wraps otherwise.
SubUsize(a, b, checks) ==
    IF a >= b
    THEN [value |-> a - b, panic |-> FALSE]
    ELSE [value |-> (a - b) % (UsizeMax + 1), panic |-> checks]

SetMin(S) == CHOOSE x \in S : \A y \in S : x <= y
SetMax(S) == CHOOSE x \in S : \A y \in S : x >= y

\* Fault: the last element is taken instead of the first.
BTreeLast(S) == SetMax(S)

\* BTreeSet::iter().next(): the first element in ascending order.
BTreeFirst(S) == SetMin(S)

-----------------------------------------------------------------------------
VARIABLES
    free_lists,        \* free_lists[k]: start addresses of the free blocks of size 2^k
    total,             \* statistics field `total`
    allocated,         \* statistics field `allocated`
    debug_assertions,  \* the build: TRUE for debug, FALSE for release
    panicked,          \* a panic has aborted the run
    outstanding,       \* bag of allocations that returned Some and are not yet freed
    inserted,          \* the units passed to add_range so far
    ranges,            \* number of add_range calls so far
    last,              \* the latest call: its operation, arguments and result
    builder,           \* the HeaderBuilder: flags, addresses, graphics
    options,           \* the builder methods called so far, in order
    header,            \* what build() returned
    kernel_header,     \* the Header of src/boot/multiboot.rs
    boot,              \* the handshake: magic, pointer, the record behind it, outcome
    access,            \* the latest accessor call on the boot-info view
    memory,            \* the memory-map buffer the bootloader wrote
    iter,              \* the MemoryMapIter and what it has yielded
    clone,             \* a clone of it and what the clone has yielded
    chunk_iter,        \* the MemoryMap of multiboot/src/lib.rs and what it has yielded
    usable,            \* what filter_usable() returned and what it has yielded
    call,              \* the latest call of a MemoryRegion method: arguments, result
    source,            \* the region iterator the range filters are built over
    views,             \* the RangeFilters built over it and what each has yielded
    boot_memory,       \* how bootstrap_subsystem ended and the window it selected
    frames,            \* the SimplePageFrameAllocator and the pages it handed out
    cpu                \* the core from multiboot_main on: where it is, what it did

allocVars == <<free_lists, total, allocated, panicked, outstanding, inserted,
               ranges, last>>
headerVars == <<builder, options, header, kernel_header>>
bootVars == <<boot, access>>
mmapVars == <<memory, iter, clone, chunk_iter, usable>>
regionVars == <<call, source, views, boot_memory>>
kernelVars == <<frames, cpu>>

vars == <<debug_assertions, allocVars, headerVars, bootVars, mmapVars, regionVars,
          kernelVars>>

\* What each part leaves alone: the objects of the other parts.
notAlloc == <<headerVars, bootVars, mmapVars, regionVars, kernelVars>>
notHeader == <<allocVars, bootVars, mmapVars, regionVars, kernelVars>>
notBoot == <<allocVars, headerVars, mmapVars, regionVars, kernelVars>>
notMmap == <<allocVars, headerVars, bootVars, regionVars, kernelVars>>
notRegion == <<allocVars, headerVars, bootVars, mmapVars, kernelVars>>

\* An object that has not been constructed.
Absent == [constructed |-> FALSE]

HeaderAbsent ==
    /\ builder = Absent
    /\ options = <<>>
    /\ header = Absent
    /\ kernel_header = Absent

BootAbsent ==
    /\ boot = Absent
    /\ access = Absent

MmapAbsent ==
    /\ memory = Absent
    /\ iter = Absent
    /\ clone = Absent
    /\ chunk_iter = Absent
    /\ usable = Absent

RegionAbsent ==
    /\ call = Absent
    /\ source = Absent
    /\ views = Absent
    /\ boot_memory = Absent

KernelAbsent ==
    /\ frames = Absent
    /\ cpu = Absent

\* BuddyAllocator::new(): no free blocks, statistics zero.
new == [free_lists |-> [k \in Slots |-> {}], total |-> 0, allocated |-> 0,
        panicked |-> FALSE]

\* The allocator as a value, as the methods below take and return it.
Self == [free_lists |-> free_lists, total |-> total, allocated |-> allocated,
         panicked |-> panicked]

-----------------------------------------------------------------------------
(* BuddyAllocator::add_range *)

\* Fault: the alignment of `start` is not taken into account.
insertion_alignment_ignored(start) == UsizeMax

\* The largest power of two that `start` is a multiple of (usize::MAX for 0).
insertion_alignment(start) ==
    IF start > 0 THEN BitAnd(start, BitNot(start) + 1) ELSE UsizeMax

\* The range's length rounded down to a power of two, capped at the largest
\* block size of the allocator.
max_insertion_size(len) == min(2^ilog2(len), 2^(ORDER - 1))

actual_insertion_size(start, end) ==
    min(insertion_alignment(start), max_insertion_size(end - start))

\* assert_block_alignment: every free block is a multiple of its size.
assert_block_alignment(fl) ==
    \A n \in Slots : \A free_block \in fl[n] : free_block % (2^n) = 0

\* Fault: the block is inserted but `total` is not updated.
insert_free_block_no_total(self, start, size, checks) ==
    [self EXCEPT !.free_lists[ilog2(size)] = @ \cup {start}]

\* total += size; free_lists[log2 size].insert(start).  The value carries
\* `panicked` when the addition overflows in a build that checks it.
insert_free_block(self, start, size, checks) ==
    LET sum == AddUsize(self.total, size, checks)
    IN  IF sum.panic THEN [self EXCEPT !.panicked = TRUE]
        ELSE [self EXCEPT !.total = sum.value,
                          !.free_lists[ilog2(size)] = @ \cup {start}]

\* Fault: the end of the range is not checked against 1 << ORDER.
RECURSIVE add_range_unclipped(_, _, _, _)
add_range_unclipped(self, start, end, debug) ==
    IF self.panicked THEN self
    ELSE IF start < end THEN
        LET size == actual_insertion_size(start, end)
            next == insert_free_block(self, start, size, debug)
        IN  IF next.panicked THEN next
            ELSE add_range_unclipped(next, start + size, end, debug)
    ELSE self

\* Fault: the first block is inserted and the rest of the range is dropped.
add_range_first_block(self, start, end, debug) ==
    IF start < end
    THEN insert_free_block(self, start, actual_insertion_size(start, end), debug)
    ELSE self

\* One call inserts one block and recurses on the rest of the range.  `self`
\* is the allocator before the call, the value is the allocator after it.
RECURSIVE add_range(_, _, _, _)
add_range(self, start, end, debug) ==
    IF self.panicked THEN self
    ELSE IF end > 2^ORDER THEN
        \* debug_assert!(range.end <= 1 << ORDER)
        IF debug THEN [self EXCEPT !.panicked = TRUE]
        ELSE add_range(self, start, min(end, 2^ORDER), debug)
    ELSE IF start > end THEN
        \* debug_assert!(range.start <= range.end)
        IF debug THEN [self EXCEPT !.panicked = TRUE] ELSE self
    ELSE IF start < end THEN
        LET size == actual_insertion_size(start, end)
            next == insert_free_block(self, start, size, debug)
        IN  IF next.panicked THEN next
            ELSE IF debug /\ ~assert_block_alignment(next.free_lists)
                 THEN [next EXCEPT !.panicked = TRUE]
            ELSE add_range(next, start + size, end, debug)
    ELSE self

-----------------------------------------------------------------------------
(* BuddyAllocator::alloc, alloc_aligned, alloc_power_of_two *)

\* Fault: the upper half of a split block is not put back.
RECURSIVE split_buffers_lower_half(_, _, _)
split_buffers_lower_half(fl, j, class) ==
    IF j <= class THEN [free_lists |-> fl, ok |-> TRUE]
    ELSE IF fl[j] = {} THEN [free_lists |-> fl, ok |-> FALSE]
    ELSE LET block == BTreeFirst(fl[j])
             fl1 == [fl EXCEPT ![j - 1] = @ \cup {block}]
             fl2 == [fl1 EXCEPT ![j] = @ \ {block}]
         IN  split_buffers_lower_half(fl2, j - 1, class)

\* Fault: the loop moves the blocks and then takes its None branch.
split_buffers_failing(fl, j, class) ==
    [split_buffers_lower_half(fl, j, class) EXCEPT !.ok = (j <= class)]

\* The split loop: for j = i down to class + 1, move the first block of
\* slot j to slot j - 1 as two halves.  ok is FALSE when the loop returns None.
RECURSIVE split_buffers(_, _, _)
split_buffers(fl, j, class) ==
    IF j <= class THEN [free_lists |-> fl, ok |-> TRUE]
    ELSE IF fl[j] = {} THEN [free_lists |-> fl, ok |-> FALSE]
    ELSE LET block == BTreeFirst(fl[j])
             fl1 == [fl EXCEPT ![j - 1] = @ \cup {block + 2^(j - 1), block}]
             fl2 == [fl1 EXCEPT ![j] = @ \ {block}]
         IN  split_buffers(fl2, j - 1, class)

\* Fault: the scan starts one class above the class asked for.
first_non_empty_above(fl, class) ==
    IF \E i \in Slots : i > class /\ fl[i] # {}
    THEN SetMin({i \in Slots : i > class /\ fl[i] # {}})
    ELSE ORDER

\* The first non-empty size class at or above `class`, ORDER when there is none.
first_non_empty(fl, class) ==
    IF \E i \in Slots : i >= class /\ fl[i] # {}
    THEN SetMin({i \in Slots : i >= class /\ fl[i] # {}})
    ELSE ORDER

\* The value is the allocator after the call and the returned Option.
alloc_power_of_two(self, size, checks) ==
    LET class == trailing_zeros(size)
        i == first_non_empty(self.free_lists, class)
    IN  IF i >= ORDER THEN [self |-> self, result |-> None]
        ELSE LET split == split_buffers(self.free_lists, i, class)
                 fl == split.free_lists
                 unchangedStats == [self EXCEPT !.free_lists = fl]
             IN  IF ~split.ok \/ fl[class] = {}
                 THEN [self |-> unchangedStats, result |-> None]
                 ELSE LET result == BTreeFirst(fl[class])
                          sum == AddUsize(self.allocated, size, checks)
                      IN  IF sum.panic
                          THEN [self |-> [unchangedStats EXCEPT
                                            !.free_lists[class] = @ \ {result},
                                            !.panicked = TRUE],
                                result |-> None]
                          ELSE [self |-> [self EXCEPT
                                            !.free_lists = [fl EXCEPT ![class] = @ \ {result}],
                                            !.allocated = sum.value],
                                result |-> result]

\* Fault: the count is not rounded up to a power of two.
alloc_size_unrounded(count, checks) == [value |-> count, panic |-> FALSE]

\* The size alloc asks alloc_power_of_two for.
alloc_size(count, checks) == next_power_of_two(count, checks)

\* Fault: the alignment of the layout is dropped.
aligned_size_no_align(layout, checks) == next_power_of_two(layout.size, checks)

\* The size alloc_aligned asks for: a layout is [size, align] (Layout::size,
\* Layout::align).
aligned_size(layout, checks) ==
    LET np == next_power_of_two(layout.size, checks)
    IN  [value |-> max(np.value, layout.align), panic |-> np.panic]

alloc(self, count, checks) ==
    LET size == alloc_size(count, checks)
    IN  IF size.panic THEN [self |-> [self EXCEPT !.panicked = TRUE], result |-> None]
        ELSE alloc_power_of_two(self, size.value, checks)

alloc_aligned(self, layout, checks) ==
    LET size == aligned_size(layout, checks)
    IN  IF size.panic THEN [self |-> [self EXCEPT !.panicked = TRUE], result |-> None]
        ELSE alloc_power_of_two(self, size.value, checks)

-----------------------------------------------------------------------------
(* BuddyAllocator::dealloc, dealloc_aligned, dealloc_power_of_two *)

\* Fault: the free buddy stays in its slot when the block is merged with it.
RECURSIVE merge_buddies_keeping(_, _, _)
merge_buddies_keeping(fl, current_ptr, current_class) ==
    IF current_class >= ORDER THEN fl
    ELSE LET buddy == BitXor(current_ptr, 2^current_class)
         IN  IF buddy \in fl[current_class]
             THEN merge_buddies_keeping(fl, min(current_ptr, buddy), current_class + 1)
             ELSE [fl EXCEPT ![current_class] = @ \cup {current_ptr}]

\* The merge loop: while current_class < ORDER, take the free buddy out of its
\* slot and go one class up, or insert the block and stop.
RECURSIVE merge_buddies(_, _, _)
merge_buddies(fl, current_ptr, current_class) ==
    IF current_class >= ORDER THEN fl
    ELSE LET buddy == BitXor(current_ptr, 2^current_class)
         IN  IF buddy \in fl[current_class]
             THEN merge_buddies([fl EXCEPT ![current_class] = @ \ {buddy}],
                                min(current_ptr, buddy), current_class + 1)
             ELSE [fl EXCEPT ![current_class] = @ \cup {current_ptr}]

dealloc_power_of_two(self, start_frame, size, checks) ==
    LET class == trailing_zeros(size)
        fl == merge_buddies(self.free_lists, start_frame, class)
        diff == SubUsize(self.allocated, size, checks)
    IN  [self EXCEPT !.free_lists = fl,
                     !.allocated = IF diff.panic THEN @ ELSE diff.value,
                     !.panicked = diff.panic]

\* Fault: the count is not rounded up to a power of two.
dealloc_size_unrounded(count, checks) == [value |-> count, panic |-> FALSE]

\* The size dealloc asks dealloc_power_of_two for.
dealloc_size(count, checks) == next_power_of_two(count, checks)

dealloc(self, start_frame, count, checks) ==
    LET size == dealloc_size(count, checks)
    IN  IF size.panic THEN [self EXCEPT !.panicked = TRUE]
        ELSE dealloc_power_of_two(self, start_frame, size.value, checks)

dealloc_aligned(self, start_frame, layout, checks) ==
    LET size == aligned_size(layout, checks)
    IN  IF size.panic THEN [self EXCEPT !.panicked = TRUE]
        ELSE dealloc_power_of_two(self, start_frame, size.value, checks)

-----------------------------------------------------------------------------
(* The calls a client makes *)

\* Requested frame counts: zero, a power of two, a count that is rounded up, the
\* largest block, a count beyond the largest block, and a count whose next
\* power of two does not fit the word.
Counts == {0, 1, 3, 2^(ORDER - 1), 2^ORDER, 2^(UsizeBits - 1) + 1}

\* Requested layouts (Layout guarantees that align is a power of two): one
\* whose alignment exceeds its size, one whose size exceeds its alignment and is
\* rounded up, and one whose alignment exceeds the largest block.
Layouts == {[size |-> 1, align |-> 2], [size |-> 3, align |-> 1],
            [size |-> 1, align |-> 2^ORDER]}

NoLayout == [size |-> 0, align |-> 0]

\* Starts and ends of the ranges given to add_range: aligned and unaligned
\* ones, single units next to each other, the halves and the whole of the
\* address space.
RangeEdges == {0, 1, 2, 3, 2^(ORDER - 1), 2^ORDER - 1, 2^ORDER}

IsAlloc(op) == op \in {"alloc", "alloc_aligned"}
IsDealloc(op) == op \in {"dealloc", "dealloc_aligned"}

\* The record kept of an allocation that returned Some(addr): the arguments of
\* the call, and by how much the call raised `allocated`.
Allocation(addr, by, count, layout, charged) ==
    [addr |-> addr, by |-> by, count |-> count, layout |-> layout,
     charged |-> charged]

NoAllocation == Allocation(None, "none", None, NoLayout, 0)

\* The size classes a request can be served from in allocator `self`.
Satisfiable(self) ==
    {c \in 0..ORDER : alloc_power_of_two(self, 2^c, FALSE).result # None}

\* What a later dealloc is compared with: the allocator before the alloc.
Snapshot(self) == [allocated |-> self.allocated, satisfiable |-> Satisfiable(self)]

NoSnapshot == [allocated |-> 0, satisfiable |-> {}]

NoRange == <<0, 0>>

\* The latest call: op, the range of an add_range, the size an alloc* asked
\* alloc_power_of_two for, the returned Option, the allocation a successful
\* alloc* granted and by how much it raised `allocated`.  For a dealloc*,
\* `charged` is that of the allocation it frees and `paired` tells whether it
\* frees the allocation the call right before it granted: `granted` is then
\* that allocation and `before` the allocator before that alloc.
Call(op, range, size, result, granted, charged, paired, before) ==
    [op |-> op, range |-> range, size |-> size, result |-> result,
     granted |-> granted, charged |-> charged, paired |-> paired,
     before |-> before]

Init ==
    /\ free_lists = new.free_lists
    /\ total = new.total
    /\ allocated = new.allocated
    /\ panicked = new.panicked
    /\ debug_assertions \in BOOLEAN
    /\ outstanding = EmptyBag
    /\ inserted = {}
    /\ ranges = 0
    /\ last = Call("new", NoRange, None, None, NoAllocation, 0, FALSE, NoSnapshot)
    /\ HeaderAbsent
    /\ BootAbsent
    /\ MmapAbsent
    /\ RegionAbsent
    /\ KernelAbsent

Store(self) ==
    /\ free_lists' = self.free_lists
    /\ total' = self.total
    /\ allocated' = self.allocated
    /\ panicked' = self.panicked

DoAddRange(s, e) ==
    /\ ~panicked
    /\ ranges < MaxRanges
    /\ Store(add_range(Self, s, e, debug_assertions))
    /\ inserted' = inserted \cup (s..(e - 1))
    /\ ranges' = ranges + 1
    /\ last' = Call("add_range", <<s, e>>, None, None, NoAllocation, 0, FALSE,
                    NoSnapshot)
    /\ UNCHANGED <<debug_assertions, outstanding, notAlloc>>

\* add_range of a range inside [0, 2^ORDER) that is disjoint from every range
\* added before.
AddRange ==
    \E s \in RangeEdges : \E e \in RangeEdges :
        /\ s < e
        /\ (s..(e - 1)) \cap inserted = {}
        /\ DoAddRange(s, e)

\* add_range of a range that overlaps a range added before.
AddRangeOverlapping ==
    \E s \in RangeEdges : \E e \in RangeEdges :
        /\ s < e
        /\ (s..(e - 1)) \cap inserted # {}
        /\ DoAddRange(s, e)

\* An alloc* call returned r, having asked alloc_power_of_two for `size`
\* (size.panic when the call panicked before it got there).
Returned(r, by, count, layout, size) ==
    LET granted == IF r.result = None THEN NoAllocation
                   ELSE Allocation(r.result, by, count, layout,
                                   r.self.allocated - allocated)
    IN  /\ Store(r.self)
        /\ IF r.result = None
           THEN outstanding' = outstanding
           ELSE /\ BagCardinality(outstanding) < MaxOutstanding
                /\ outstanding' = outstanding (+) SetToBag({granted})
        /\ last' = Call(by, NoRange, IF size.panic THEN None ELSE size.value,
                        r.result, granted, granted.charged, FALSE,
                        IF r.result = None THEN NoSnapshot ELSE Snapshot(Self))
        /\ UNCHANGED <<debug_assertions, inserted, ranges, notAlloc>>

Alloc ==
    \E count \in Counts :
        /\ ~panicked
        /\ Returned(alloc(Self, count, debug_assertions), "alloc", count, NoLayout,
                    alloc_size(count, debug_assertions))

AllocAligned ==
    \E layout \in Layouts :
        /\ ~panicked
        /\ Returned(alloc_aligned(Self, layout, debug_assertions),
                    "alloc_aligned", None, layout,
                    aligned_size(layout, debug_assertions))

\* A dealloc* call of allocation a returned, leaving the allocator `self`.
Freed(a, op, self) ==
    /\ Store(self)
    /\ outstanding' = outstanding (-) SetToBag({a})
    /\ LET paired == IsAlloc(last.op) /\ last.granted = a
       IN  last' = Call(op, NoRange, None, None,
                        IF paired THEN a ELSE NoAllocation, a.charged, paired,
                        IF paired THEN last.before ELSE NoSnapshot)
    /\ UNCHANGED <<debug_assertions, inserted, ranges, notAlloc>>

\* dealloc with the address and the count of an outstanding alloc.
Dealloc ==
    \E a \in BagToSet(outstanding) :
        /\ ~panicked
        /\ a.by = "alloc"
        /\ Freed(a, "dealloc", dealloc(Self, a.addr, a.count, debug_assertions))

\* dealloc_aligned with the address and the layout of an outstanding
\* alloc_aligned.
DeallocAligned ==
    \E a \in BagToSet(outstanding) :
        /\ ~panicked
        /\ a.by = "alloc_aligned"
        /\ Freed(a, "dealloc_aligned",
                 dealloc_aligned(Self, a.addr, a.layout, debug_assertions))

Next == AddRange \/ Alloc \/ AllocAligned \/ Dealloc \/ DeallocAligned

\* Clients that keep their ranges disjoint.
Spec == Init /\ [][Next]_vars

NextAny == AddRange \/ AddRangeOverlapping \/ Alloc \/ AllocAligned
              \/ Dealloc \/ DeallocAligned

\* Clients that add any ranges inside [0, 2^ORDER).
SpecAny == Init /\ [][NextAny]_vars

-----------------------------------------------------------------------------
(* Properties of the buddy allocator *)

\* The number of free units: the sum of 2^k over the addresses of slot k.
RECURSIVE FreeUnitsBelow(_)
FreeUnitsBelow(k) ==
    IF k = 0 THEN 0
    ELSE 2^(k - 1) * Cardinality(free_lists[k - 1]) + FreeUnitsBelow(k - 1)

FreeUnits == FreeUnitsBelow(ORDER)

\* The size an allocation occupies: its request rounded to a power of two.
RoundedSize(a) ==
    IF a.by = "alloc" THEN CeilPow2(a.count)
    ELSE max(CeilPow2(a.layout.size), a.layout.align)

RECURSIVE RoundedSum(_)
RoundedSum(B) ==
    IF BagToSet(B) = {} THEN 0
    ELSE LET a == CHOOSE x \in BagToSet(B) : TRUE
         IN  RoundedSize(a) + RoundedSum(B (-) SetToBag({a}))

\* C1: in every reachable state, every address stored in free_lists[k] is a
\* multiple of 2^k, for every k in 0..ORDER.
C1_SlotAlignment ==
    \A k \in Slots : \A a \in free_lists[k] : a % (2^k) = 0

\* C1 witness: ranges were added, an allocation was made and freed again, and
\* a block of more than one unit is free.
C1_Witness ==
    /\ IsDealloc(last.op)
    /\ ranges = MaxRanges
    /\ \E k \in Slots : k > 0 /\ free_lists[k] # {}

\* C2: no slot k contains both an address a and its buddy a XOR 2^k.
C2_NoBuddiesInSlot ==
    \A k \in Slots : \A a \in free_lists[k] : BitXor(a, 2^k) \notin free_lists[k]

\* C3: after an alloc that returned Some(addr) and the matching dealloc right
\* after it, every request that could be served before the alloc can be served
\* again.
C3_PairRestoresSatisfiable ==
    (IsDealloc(last.op) /\ last.paired)
        => last.before.satisfiable \subseteq Satisfiable(Self)

\* C4 as stated: `total` equals the number of currently free units.
C4_TotalIsFreeUnits == total = FreeUnits

\* C4 as amended: `total` equals the number of units add_range was given
\* (ranges pairwise disjoint, inside [0, 2^ORDER)); alloc and dealloc leave it
\* alone.
C4_TotalIsInsertedUnits == total = Cardinality(inserted)

\* C4 witness: an alloc has succeeded, so fewer units are free than `total`.
C4_Witness ==
    /\ IsAlloc(last.op)
    /\ last.result # None
    /\ FreeUnits < total

\* C5: `total` equals the number of free units plus `allocated`.
C5_TotalIsFreePlusAllocated == total = FreeUnits + allocated

C8_AllocNeverPanics == IsAlloc(last.op) => ~panicked

\* C9: an address alloc_aligned(layout) returned is a multiple of
\* max(next_power_of_two(layout.size), layout.align).
C9_AlignedResult ==
    (last.op = "alloc_aligned" /\ last.result # None)
        => last.result % max(CeilPow2(last.granted.layout.size),
                             last.granted.layout.align) = 0

\* C9 witness: alloc_aligned returned a non-zero address for a layout whose
\* alignment exceeds its size.
C9_Witness ==
    /\ last.op = "alloc_aligned"
    /\ last.result # None
    /\ last.result > 0
    /\ last.granted.layout.align > CeilPow2(last.granted.layout.size)

\* The lowest non-empty slot at or above c.
LowestSlot(c) ==
    CHOOSE i \in Slots :
        /\ i >= c /\ free_lists[i] # {}
        /\ \A j \in Slots : (j >= c /\ free_lists[j] # {}) => i <= j

\* C10: a successful alloc_power_of_two returns the smallest address of the
\* lowest non-empty slot i at or above its class c; what it leaves behind is
\* the upper half of that block at each level c..i-1.
C10_PopsMinimum ==
    [][(IsAlloc(last'.op) /\ last'.result # None /\ outstanding' # outstanding)
          => LET c == trailing_zeros(last'.size)
                 i == LowestSlot(c)
                 r == last'.result
             IN  /\ r \in free_lists[i]
                 /\ \A a \in free_lists[i] : r <= a
                 /\ free_lists' = [k \in Slots |->
                        IF k = i THEN free_lists[k] \ {r}
                        ELSE IF k >= c /\ k < i THEN free_lists[k] \cup {r + 2^k}
                        ELSE free_lists[k]]]_vars

\* C10 witness: an alloc took the lower of two blocks of its slot.
C10_Witness ==
    /\ IsAlloc(last.op)
    /\ last.result # None
    /\ \E a \in free_lists[trailing_zeros(last.size)] :
           a > last.result + last.size

-----------------------------------------------------------------------------
(* A range that is filled: add_range(0..N) and then allocations of           *)
(* non-increasing power-of-two sizes that are kept (tests basic_usage and    *)
(* full_blocks).                                                             *)

\* An alloc call returned r and its allocation is kept: nothing bounds the
\* number of allocations but the range.
Kept(r, count, size) ==
    LET granted == IF r.result = None THEN NoAllocation
                   ELSE Allocation(r.result, "alloc", count, NoLayout,
                                   r.self.allocated - allocated)
    IN  /\ Store(r.self)
        /\ outstanding' = IF r.result = None THEN outstanding
                          ELSE outstanding (+) SetToBag({granted})
        /\ last' = Call("alloc", NoRange, IF size.panic THEN None ELSE size.value,
                        r.result, granted, granted.charged, FALSE,
                        IF r.result = None THEN NoSnapshot ELSE Snapshot(Self))
        /\ UNCHANGED <<debug_assertions, inserted, ranges, notAlloc>>

\* add_range(0..N) on the empty allocator, N a power of two, N <= 2^ORDER.
AddRangePowerOfTwo ==
    \E k \in 0..ORDER :
        /\ ranges = 0
        /\ DoAddRange(0, 2^k)

\* alloc of a power of two that is not larger than the one asked for before.
AllocNonIncreasing ==
    \E k \in 0..ORDER :
        /\ ~panicked
        /\ ranges = 1
        /\ IsAlloc(last.op) => 2^k <= last.size
        /\ Kept(alloc(Self, 2^k, debug_assertions), 2^k,
                alloc_size(2^k, debug_assertions))

NextDescending == AddRangePowerOfTwo \/ AllocNonIncreasing

SpecDescending == Init /\ [][NextDescending]_vars

-----------------------------------------------------------------------------
(* Ranges that are handed out: disjoint ranges and allocations that are kept *)
(* (test unaligned).                                                         *)

\* The counts asked for: single units, pairs, the largest block.
KeptCounts == {1, 2, 2^(ORDER - 1)}

AllocKept ==
    \E count \in KeptCounts :
        /\ ~panicked
        /\ BagCardinality(outstanding) < MaxKept
        /\ Kept(alloc(Self, count, debug_assertions), count,
                alloc_size(count, debug_assertions))

NextFill == AddRange \/ AllocKept

SpecFill == Init /\ [][NextFill]_vars

\* The free blocks of free lists fl, as <<class, start>>, and their units.
Blocks(fl) == UNION {{<<k, a>> : a \in fl[k]} : k \in Slots}
Units(b) == b[2]..(b[2] + 2^b[1] - 1)
Cover(blocks) == UNION {Units(b) : b \in blocks}

\* The units of an allocation that returned Some.
AllocUnits(a) == a.addr..(a.addr + RoundedSize(a) - 1)
AllocCover(B) == UNION {AllocUnits(a) : a \in BagToSet(B)}

\* C12: add_range(s..e), s < e <= 2^ORDER, inserts pairwise disjoint blocks
\* whose union is [s, e): the free units and `total` grow by e - s.  From then
\* on every unit is either free or allocated once, and alloc(1) returns None
\* only when every unit of the ranges is allocated.
C12_AddRangeInsertsExactly ==
    [][/\ (last'.op = "add_range" /\ ranges' # ranges)
            => LET s == last'.range[1]
                   e == last'.range[2]
                   inserts == Blocks(free_lists') \ Blocks(free_lists)
               IN  /\ Blocks(free_lists) \subseteq Blocks(free_lists')
                   /\ \A b, c \in inserts : b # c => Units(b) \cap Units(c) = {}
                   /\ Cover(inserts) = s..(e - 1)
                   /\ FreeUnits' = FreeUnits + (e - s)
                   /\ total' = total + (e - s)
       /\ IsAlloc(last'.op)
            => /\ \A a \in BagToSet(outstanding') :
                      /\ CopiesIn(a, outstanding') = 1
                      /\ \A b \in BagToSet(outstanding') :
                             a # b => AllocUnits(a) \cap AllocUnits(b) = {}
               /\ AllocCover(outstanding') \cap Cover(Blocks(free_lists')) = {}
               /\ AllocCover(outstanding') \cup Cover(Blocks(free_lists')) = inserted'
               /\ (last'.result = None /\ last'.size = 1)
                     => AllocCover(outstanding') = inserted']_vars

\* C12 witness: of the unaligned range 0..3 the pair 0..2 and the unit 2 were
\* handed out, and the next alloc(1) returned None.
C12_Witness ==
    /\ last.op = "alloc"
    /\ last.size = 1
    /\ last.result = None
    /\ inserted = 0..2
    /\ {a.addr : a \in BagToSet(outstanding)} = {0, 2}

-----------------------------------------------------------------------------
(* Ranges that end beyond the allocator: add_range(s..e) with e > 2^ORDER.   *)

\* Ends beyond 1 << ORDER: the first one and the largest usize.
BeyondEdges == {2^ORDER + 1, UsizeMax}

\* add_range of a range that ends beyond 2^ORDER and starts anywhere, disjoint
\* from every range added before.
AddRangeBeyond ==
    \E s \in RangeEdges \cup BeyondEdges : \E e \in BeyondEdges :
        /\ s < e
        /\ (s..(e - 1)) \cap inserted = {}
        /\ DoAddRange(s, e)

\* dealloc of the allocation that the call right before it returned.
DeallocLatest ==
    /\ ~panicked
    /\ IsAlloc(last.op)
    /\ last.result # None
    /\ Freed(last.granted, "dealloc",
             dealloc(Self, last.granted.addr, last.granted.count, debug_assertions))

NextClip == AddRange \/ AddRangeBeyond \/ AllocKept \/ DeallocLatest

SpecClip == Init /\ [][NextClip]_vars

\* The blocks add_range(s..e) is to insert when e > 2^ORDER: they cover
\* [s, 2^ORDER), which is empty for s >= 2^ORDER, and nothing else changes.
ClippedInsert(s) ==
    LET inserts == Blocks(free_lists') \ Blocks(free_lists)
    IN  /\ Blocks(free_lists) \subseteq Blocks(free_lists')
        /\ \A b, c \in inserts : b # c => Units(b) \cap Units(c) = {}
        /\ Cover(inserts) = s..(2^ORDER - 1)
        /\ total' = total + Cardinality(s..(2^ORDER - 1))

NoBlockBeyond(fl) == \A b \in Blocks(fl) : b[2] + 2^b[1] <= 2^ORDER

\* C13 as stated: add_range(s..e) with e > 2^ORDER returns without a panic
\* having inserted exactly the blocks that cover [s, 2^ORDER), and no free
\* block ever extends beyond 2^ORDER.
C13_ClipsSilently ==
    [][/\ (last'.op = "add_range" /\ ranges' # ranges /\ last'.range[2] > 2^ORDER)
            => (~panicked' /\ ClippedInsert(last'.range[1]))
       /\ NoBlockBeyond(free_lists')]_vars

\* C13 as amended: that is what a build without debug assertions does; with
\* debug assertions the call panics at debug_assert!(range.end <= 1 << ORDER)
\* and inserts nothing.  In both builds no free block extends beyond 2^ORDER.
C13_ClipsInReleasePanicsInDebug ==
    [][/\ (last'.op = "add_range" /\ ranges' # ranges /\ last'.range[2] > 2^ORDER)
            => IF debug_assertions
               THEN panicked' /\ free_lists' = free_lists /\ total' = total
               ELSE ~panicked' /\ ClippedInsert(last'.range[1])
       /\ NoBlockBeyond(free_lists')]_vars

\* C13 witness: a release build was given a range that starts inside the
\* allocator, unaligned, and ends at the largest usize; blocks up to 2^ORDER
\* are free.
C13_Witness ==
    /\ last.op = "add_range"
    /\ last.range = <<3, UsizeMax>>
    /\ ~debug_assertions
    /\ ~panicked
    /\ 2^ORDER - 1 \in Cover(Blocks(free_lists))

-----------------------------------------------------------------------------
(* u32 words.  A u32 is the set of the positions of its one bits, so that    *)
(* |, &, ! and addition modulo 2^32 are exact.                               *)

\* Number of bits of a u32.
U32Width == 32

RECURSIVE BitsFrom(_, _)
BitsFrom(n, i) ==
    IF n = 0 THEN {}
    ELSE (IF n % 2 = 1 THEN {i} ELSE {}) \cup BitsFrom(n \div 2, i + 1)

\* The u32 of a number literal below 2^31.
U32(n) == BitsFrom(n, 0)

U32Or(a, b) == a \cup b
U32And(a, b) == a \cap b
U32Not(a) == (0..(U32Width - 1)) \ a

\* The bits i and up of a + b + carry; bit U32Width is the carry out of the word.
RECURSIVE AddBits(_, _, _, _)
AddBits(a, b, i, carry) ==
    IF i = U32Width THEN (IF carry = 1 THEN {U32Width} ELSE {})
    ELSE LET t == (IF i \in a THEN 1 ELSE 0) + (IF i \in b THEN 1 ELSE 0) + carry
         IN  (IF t % 2 = 1 THEN {i} ELSE {}) \cup AddBits(a, b, i + 1, t \div 2)

\* u32::wrapping_add
wrapping_add(a, b) == AddBits(a, b, 0, 0) \ {U32Width}

\* a + b on u32: `overflow` when the sum does not fit the word (a compile error
\* in a const context, a panic with overflow checks on, a wrapped value else).
AddU32(a, b) ==
    [value |-> wrapping_add(a, b), overflow |-> U32Width \in AddBits(a, b, 0, 0)]

-----------------------------------------------------------------------------
(* Part A: HeaderBuilder and Header of multiboot/src/header.rs, and Header   *)
(* of src/boot/multiboot.rs.  The fields magic, flags and checksum are u32   *)
(* words; the address and graphics fields are only copied and are numbers.   *)

\* Number of builder methods called before build().
MaxOptions == 3

HEADER_MAGIC == U32(\H1BADB002)

\* Option::None of the two optional sub-records of the builder.
NoRequest == [some |-> FALSE]

GraphicsRequest(mode, width, height, depth) ==
    [mode |-> mode, width |-> width, height |-> height, depth |-> depth]

LoadAddressRequest(header_addr, load_addr, load_end_addr, bss_end_addr, entry_addr) ==
    [header_addr |-> header_addr, load_addr |-> load_addr,
     load_end_addr |-> load_end_addr, bss_end_addr |-> bss_end_addr,
     entry_addr |-> entry_addr]

\* GraphicsRequest::default_const, with_framebuffer, with_text_mode
default_const == GraphicsRequest(1, 0, 0, 0)
with_framebuffer(self) == [self EXCEPT !.mode = 0]
with_text_mode(self) == [self EXCEPT !.mode = 1]

\* HeaderBuilder::new()
HeaderBuilder_new == [flags |-> {}, addresses |-> NoRequest, graphics |-> NoRequest]

request_aligned_modules(self) == [self EXCEPT !.flags = U32Or(@, U32(2^0))]

\* Fault: the memory-map request sets the bit of the graphics request.
request_memory_map_bit_2(self) == [self EXCEPT !.flags = U32Or(@, U32(2^2))]

request_memory_map(self) == [self EXCEPT !.flags = U32Or(@, U32(2^1))]

request_graphics(self, graphics) ==
    [self EXCEPT !.flags = U32Or(@, U32(2^2)), !.graphics = graphics]

request_default_framebuffer(self) ==
    request_graphics(self, with_framebuffer(default_const))

request_default_textmode(self) ==
    request_graphics(self, with_text_mode(default_const))

\* Fault: the one's complement, without the + 1.
ones_complement(word) == [value |-> U32Not(word), overflow |-> FALSE]

\* !word + 1 on u32
twos_complement(word) == AddU32(U32Not(word), U32(1))

\* HeaderBuilder::build: the Header, and whether computing it overflowed.
build(self) ==
    LET checksum == twos_complement(wrapping_add(HEADER_MAGIC, self.flags))
    IN  [magic |-> HEADER_MAGIC,
         flags |-> self.flags,
         checksum |-> checksum.value,
         addresses |-> IF self.addresses # NoRequest THEN self.addresses
                       ELSE LoadAddressRequest(0, 0, 0, 0, 0),
         graphics |-> IF self.graphics # NoRequest THEN self.graphics
                      ELSE default_const,
         overflow |-> checksum.overflow]

\* Header::with_checksum of src/boot/multiboot.rs: !(magic + flags) + 1
with_checksum(self) ==
    LET sum == AddU32(self.magic, self.flags)
        checksum == twos_complement(sum.value)
    IN  [self EXCEPT !.checksum = checksum.value,
                     !.overflow = @ \/ sum.overflow \/ checksum.overflow]

\* Header::new, request_aligned_modules, request_memory_map of
\* src/boot/multiboot.rs
Header_new ==
    with_checksum([magic |-> HEADER_MAGIC, flags |-> {}, checksum |-> {},
                   overflow |-> FALSE])

Header_request_aligned_modules(self) ==
    with_checksum([self EXCEPT !.flags = U32Or(@, U32(1))])

Header_request_memory_map(self) ==
    with_checksum([self EXCEPT !.flags = U32Or(@, U32(2))])

\* The graphics requests a kernel passes to request_graphics.
GraphicsRequests == {GraphicsRequest(0, 1024, 768, 32), GraphicsRequest(1, 80, 25, 0)}

AllocAbsent ==
    /\ free_lists = new.free_lists
    /\ total = new.total
    /\ allocated = new.allocated
    /\ panicked = new.panicked
    /\ outstanding = EmptyBag
    /\ inserted = {}
    /\ ranges = 0
    /\ last = Call("new", NoRange, None, None, NoAllocation, 0, FALSE, NoSnapshot)

InitHeader ==
    /\ debug_assertions \in BOOLEAN
    /\ builder = HeaderBuilder_new
    /\ options = <<>>
    /\ header = Absent
    /\ kernel_header = Header_new
    /\ AllocAbsent
    /\ BootAbsent
    /\ MmapAbsent
    /\ RegionAbsent
    /\ KernelAbsent

\* A builder method was called: the builder it returned and its name.
Requested(self, option) ==
    /\ header = Absent
    /\ Len(options) < MaxOptions
    /\ builder' = self
    /\ options' = Append(options, option)
    /\ UNCHANGED <<debug_assertions, header, kernel_header, notHeader>>

RequestAlignedModules ==
    Requested(request_aligned_modules(builder), "request_aligned_modules")

RequestMemoryMap ==
    Requested(request_memory_map(builder), "request_memory_map")

RequestGraphics ==
    \E graphics \in GraphicsRequests :
        Requested(request_graphics(builder, graphics), "request_graphics")

RequestDefaultFramebuffer ==
    Requested(request_default_framebuffer(builder), "request_default_framebuffer")

RequestDefaultTextmode ==
    Requested(request_default_textmode(builder), "request_default_textmode")

\* build() consumes the builder.
Build ==
    /\ header = Absent
    /\ header' = build(builder)
    /\ UNCHANGED <<debug_assertions, builder, options, kernel_header, notHeader>>

KernelRequestAlignedModules ==
    /\ kernel_header' = Header_request_aligned_modules(kernel_header)
    /\ UNCHANGED <<debug_assertions, builder, options, header, notHeader>>

KernelRequestMemoryMap ==
    /\ kernel_header' = Header_request_memory_map(kernel_header)
    /\ UNCHANGED <<debug_assertions, builder, options, header, notHeader>>

NextHeader ==
    \/ RequestAlignedModules
    \/ RequestMemoryMap
    \/ RequestGraphics
    \/ RequestDefaultFramebuffer
    \/ RequestDefaultTextmode
    \/ Build
    \/ KernelRequestAlignedModules
    \/ KernelRequestMemoryMap

SpecHeader == InitHeader /\ [][NextHeader]_vars

-----------------------------------------------------------------------------
(* Properties of the header builder *)

\* magic + flags + checksum is 0 modulo 2^32, the magic is 0x1BADB002, and
\* nothing overflowed on the way.
ChecksumLaw(h) ==
    /\ h.magic = U32(\H1BADB002)
    /\ wrapping_add(wrapping_add(h.magic, h.flags), h.checksum) = {}
    /\ ~h.overflow

\* C14: for every sequence of HeaderBuilder options followed by build(), the
\* header has magic 0x1BADB002 and magic + flags + checksum = 0 modulo 2^32,
\* and build() does not overflow; the same for the Header of
\* src/boot/multiboot.rs after each of its methods.
C14_ChecksumLaw ==
    /\ header # Absent => ChecksumLaw(header)
    /\ kernel_header # Absent => ChecksumLaw(kernel_header)

\* C14 witness: a header with the three request bits was built, and the kernel
\* header has its two.
C14_Witness ==
    /\ header # Absent
    /\ header.flags = {0, 1, 2}
    /\ header.checksum # {}
    /\ kernel_header.flags = {0, 1}

\* The flag bit the claim gives each builder method.
OptionBit(option) ==
    CASE option = "request_aligned_modules" -> 0
      [] option = "request_memory_map" -> 1
      [] option = "request_graphics" -> 2
      [] option = "request_default_framebuffer" -> 2
      [] option = "request_default_textmode" -> 2

\* C15: the flags of the builder are exactly the bits of the methods called,
\* whatever their order and however often each was called (each method sets
\* its own bit and leaves the others alone); after request_aligned_modules(),
\* request_memory_map(), request_default_framebuffer() the flags are 0b0111.
C15_OptionBits ==
    builder # Absent
        => /\ builder.flags = {OptionBit(options[i]) : i \in 1..Len(options)}
           /\ options = <<"request_aligned_modules", "request_memory_map",
                          "request_default_framebuffer">>
                 => builder.flags = U32(7)
           /\ header # Absent => header.flags = builder.flags

\* C15 witness: the three methods of the example were called and the header
\* was built.
C15_Witness ==
    /\ options = <<"request_aligned_modules", "request_memory_map",
                   "request_default_framebuffer">>
    /\ header # Absent
    /\ header.flags = U32(7)

\* C16: a header built without a graphics request has mode, width, height and
\* depth zero, and a header built without a load-address request has its five
\* address fields zero.
C16_UnsetSubRecordsZero ==
    header # Absent
        => /\ builder.graphics = NoRequest
                 => header.graphics = GraphicsRequest(0, 0, 0, 0)
           /\ builder.addresses = NoRequest
                 => header.addresses = LoadAddressRequest(0, 0, 0, 0, 0)

-----------------------------------------------------------------------------
(* Part B: the boot-info handshake and accessors.  BootInfo::from_ptr and    *)
(* the accessors of multiboot/src/lib.rs; the handshake of multiboot_main in *)
(* src/boot/mod.rs and the accessors of src/boot/multiboot.rs.  A pointer is *)
(* its address, 0 for null; the record behind a valid pointer is what the    *)
(* bootloader wrote there.                                                   *)

\* align_of::<BootInfo>() of multiboot/src/lib.rs: repr(C), u32 and pointer
\* fields, on x86.
BootInfoAlign == 4
\* align_of::<BootInfo>() of src/boot/multiboot.rs: repr(C, packed).
PackedAlign == 1

\* Option of a view: Some(value) and None.
Some(value) == [some |-> TRUE, value |-> value]
NoneView == [some |-> FALSE]

\* Fault: the pointer is taken to be aligned.
is_aligned_unchecked(mb_ptr) == TRUE

\* pointer::is_aligned for *const BootInfo
is_aligned(mb_ptr) == mb_ptr % BootInfoAlign = 0

\* The outcome of a handshake: a panic with its message, or the view.
Panic(message) == [outcome |-> "panic", message |-> message, info |-> Absent]
View(pointee) == [outcome |-> "view", message |-> "", info |-> pointee]

\* BootInfo::from_ptr
from_ptr(magic, mb_ptr, pointee) ==
    IF magic # U32(\H2BADB002) THEN Panic("Multiboot magic value mismatch")
    ELSE IF ~is_aligned(mb_ptr) THEN Panic("Multiboot pointer must be aligned")
    ELSE IF mb_ptr = 0
         THEN Panic("Multiboot information structure pointer should be non-null")
    ELSE View(pointee)

\* multiboot_main of src/boot/mod.rs, lines 78-84: the magic is compared and the
\* pointer dereferenced with as_ref().expect(..).
multiboot_main_handshake(magic, mb_ptr, pointee) ==
    IF magic # U32(\H2BADB002) THEN Panic("Multiboot magic value mismatch")
    ELSE IF mb_ptr = 0
         THEN Panic("Multiboot information structure pointer should be non-null")
    ELSE View(pointee)

\* BitfieldExt::is_nth_bit_set for u32: *self & (bit << 1) as u32 != 0
is_nth_bit_set(word, bit) == U32And(word, U32(bit * 2)) # {}

\* A slice or C string behind a pointer.
Slice(ptr, len) == [ptr |-> ptr, len |-> len]

\* BootInfo::_command_line, _modules, memory_map of multiboot/src/lib.rs
command_line(self) ==
    IF is_nth_bit_set(self.flags, 2) /\ self.cmdline # 0
    THEN Some(self.cmdline) ELSE NoneView

modules(self) ==
    IF is_nth_bit_set(self.flags, 3) /\ self.mods_addr # 0
    THEN Some(Slice(self.mods_addr, self.mods_count)) ELSE NoneView

memory_map(self) ==
    IF is_nth_bit_set(self.flags, 6) /\ self.mmap # 0
    THEN Some(Slice(self.mmap, self.mmap_length)) ELSE NoneView

\* The guard constants of src/boot/multiboot.rs
COMMAND_LINE_PRESENT == U32(2^2)
MODULES_PRESENT == U32(2^3)
MEMORY_MAP_PRESENT == U32(2^6)

\* BootInfo::_command_line, _modules, memory_map of src/boot/multiboot.rs
boot_command_line(self) ==
    IF U32And(self.flags, COMMAND_LINE_PRESENT) # {} /\ self.cmdline # 0
    THEN Some(self.cmdline) ELSE NoneView

boot_modules(self) ==
    IF U32And(self.flags, MODULES_PRESENT) # {} /\ self.mods_addr # 0
    THEN Some(Slice(self.mods_addr, self.mods_count)) ELSE NoneView

boot_memory_map(self) ==
    IF U32And(self.flags, MEMORY_MAP_PRESENT) # {} /\ self.mmap # 0
    THEN Some(Slice(self.mmap, self.mmap_length)) ELSE NoneView

\* What the bootloader passes in eax: the magic, the header's magic, zero, and
\* the magic with the top bit set.
Magics == {U32(\H2BADB002), U32(\H1BADB002), {}, U32(\H2BADB002) \cup {31}}

\* What it passes in ebx: null, unaligned and aligned addresses.
Pointers == {0, 2, 4096, 4098}

\* The flag bits it sets: the guards of the three accessors and bits that guard
\* other fields.
FlagBits == {0, 1, 2, 3, 6, 31}

\* The records it writes: any flags, each pointer null or not.
BootInfos ==
    [flags : SUBSET FlagBits, cmdline : {0, 36864}, mods_count : {2},
     mods_addr : {0, 40960}, mmap_length : {48}, mmap : {0, 45056}]

InitBoot ==
    /\ debug_assertions \in BOOLEAN
    /\ boot = Absent
    /\ access = Absent
    /\ AllocAbsent
    /\ HeaderAbsent
    /\ MmapAbsent
    /\ RegionAbsent
    /\ KernelAbsent

\* A handshake `by` ended with `result`.
ShookHands(by, magic, mb_ptr, result) ==
    /\ boot' = [constructed |-> TRUE, by |-> by, magic |-> magic, mb_ptr |-> mb_ptr,
                outcome |-> result.outcome, message |-> result.message,
                info |-> result.info]
    /\ UNCHANGED <<debug_assertions, access, notBoot>>

FromPtr ==
    /\ boot = Absent
    /\ \E magic \in Magics : \E mb_ptr \in Pointers : \E pointee \in BootInfos :
           ShookHands("from_ptr", magic, mb_ptr, from_ptr(magic, mb_ptr, pointee))

MultibootMainHandshake ==
    /\ boot = Absent
    /\ \E magic \in Magics : \E mb_ptr \in Pointers : \E pointee \in BootInfos :
           ShookHands("multiboot_main", magic, mb_ptr,
                      multiboot_main_handshake(magic, mb_ptr, pointee))

\* An accessor of the view that handshake `by` returned was called.
Accessed(by, fn, result) ==
    /\ boot # Absent
    /\ boot.outcome = "view"
    /\ boot.by = by
    /\ access' = [constructed |-> TRUE, fn |-> fn, result |-> result]
    /\ UNCHANGED <<debug_assertions, boot, notBoot>>

CommandLine ==
    /\ boot # Absent /\ boot.outcome = "view"
    /\ Accessed("from_ptr", "command_line", command_line(boot.info))

Modules ==
    /\ boot # Absent /\ boot.outcome = "view"
    /\ Accessed("from_ptr", "modules", modules(boot.info))

MemoryMap ==
    /\ boot # Absent /\ boot.outcome = "view"
    /\ Accessed("from_ptr", "memory_map", memory_map(boot.info))

BootCommandLine ==
    /\ boot # Absent /\ boot.outcome = "view"
    /\ Accessed("multiboot_main", "command_line", boot_command_line(boot.info))

BootModules ==
    /\ boot # Absent /\ boot.outcome = "view"
    /\ Accessed("multiboot_main", "modules", boot_modules(boot.info))

BootMemoryMap ==
    /\ boot # Absent /\ boot.outcome = "view"
    /\ Accessed("multiboot_main", "memory_map", boot_memory_map(boot.info))

NextBoot ==
    \/ FromPtr
    \/ MultibootMainHandshake
    \/ CommandLine
    \/ Modules
    \/ MemoryMap
    \/ BootCommandLine
    \/ BootModules
    \/ BootMemoryMap

SpecBoot == InitBoot /\ [][NextBoot]_vars

-----------------------------------------------------------------------------
(* Properties of the boot-info reader *)

\* The alignment of the record a handshake dereferences.
RecordAlign(by) == IF by = "from_ptr" THEN BootInfoAlign ELSE PackedAlign

\* C17: the handshake panics whenever the magic is not 0x2BADB002, or the
\* pointer is null, or the pointer is not aligned to the record's alignment;
\* it returns a view exactly when all three checks pass.
C17_HandshakeChecks ==
    boot # Absent
        => /\ boot.outcome \in {"view", "panic"}
           /\ boot.outcome = "view"
                <=> /\ boot.magic = U32(\H2BADB002)
                    /\ boot.mb_ptr # 0
                    /\ boot.mb_ptr % RecordAlign(boot.by) = 0

\* C17 witness: from_ptr panicked on a pointer that is not null but unaligned,
\* the magic being right.
C17_Witness ==
    /\ boot # Absent
    /\ boot.by = "from_ptr"
    /\ boot.outcome = "panic"
    /\ boot.magic = U32(\H2BADB002)
    /\ boot.mb_ptr = 4098

\* The guard bit the claim gives each accessor, and the pointer it checks.
GuardBit(fn) ==
    CASE fn = "command_line" -> 2
      [] fn = "modules" -> 3
      [] fn = "memory_map" -> 6

GuardedPointer(fn, info) ==
    CASE fn = "command_line" -> info.cmdline
      [] fn = "modules" -> info.mods_addr
      [] fn = "memory_map" -> info.mmap

\* C18: memory_map() is Some iff flag bit 6 is set and the mmap pointer is not
\* null, _modules() iff bit 3 and mods_addr, _command_line() iff bit 2 and
\* cmdline; no other flag bit has an influence.
C18_GuardBits ==
    (access # Absent)
        => (access.result.some
              <=> /\ GuardBit(access.fn) \in boot.info.flags
                  /\ GuardedPointer(access.fn, boot.info) # 0)

-----------------------------------------------------------------------------
(* Part C: the memory-map iterator of multiboot/src/mmap.rs.  The buffer is  *)
(* the bytes the bootloader wrote; a slice into it is its address and its    *)
(* length.  Words read from the bytes are sets of one bits, like u32 above,  *)
(* so a read is exact at every offset.  The layout of MemoryMapEntry is the  *)
(* x86 one (the crate is cfg(target_arch = "x86")): u64 is 4-aligned, the    *)
(* fields lie at 0, 4, 12, 20.  align_to is modelled as core implements it:  *)
(* the head is the bytes up to the next aligned address.                     *)

\* The most entries the bootloader writes into one map.
MaxEntries == 3

\* align_of and size_of of MemoryMapEntry
EntryAlign == 4
EntrySize == 24

\* The k bytes of n, least significant first.
RECURSIVE LE(_, _)
LE(n, k) == IF k = 0 THEN <<>> ELSE <<n % 256>> \o LE(n \div 256, k - 1)

\* An entry as the bootloader writes it: size, base_addr, length, type, and the
\* bytes by which size exceeds the 20 of the three fields.
Encode(entry) ==
    LE(entry.size, 4) \o LE(entry.base_addr, 8) \o LE(entry.length, 8)
        \o LE(entry.type, 4) \o [i \in 1..(entry.size - 20) |-> 0]

RECURSIVE EncodeAll(_)
EncodeAll(entries) ==
    IF entries = <<>> THEN <<>>
    ELSE Encode(Head(entries)) \o EncodeAll(Tail(entries))

\* The word a little-endian load reads from `bytes`.
Bits(bytes) ==
    {8 * (p[1] - 1) + p[2] :
        p \in {q \in (1..Len(bytes)) \X (0..7) : (bytes[q[1]] \div 2^(q[2])) % 2 = 1}}

\* The number a word below 2^31 stands for.
RECURSIVE ToNat(_)
ToNat(word) ==
    IF word = {} THEN 0
    ELSE LET b == CHOOSE x \in word : TRUE IN 2^b + ToNat(word \ {b})

\* word > n, for n below 2^31
Exceeds(word, n) == (\E b \in word : b > 30) \/ ToNat(word) > n

\* The `width` bytes at `offset` of the slice `buffer` of memory `mem`.
Load(mem, buffer, offset, width) ==
    SubSeq(mem.bytes, buffer.ptr - mem.addr + offset + 1,
           buffer.ptr - mem.addr + offset + width)

\* The MemoryMapEntry at the start of the slice.
first(mem, buffer) ==
    [size |-> Bits(Load(mem, buffer, 0, 4)),
     base_addr |-> Bits(Load(mem, buffer, 4, 8)),
     length |-> Bits(Load(mem, buffer, 12, 8)),
     type |-> Bits(Load(mem, buffer, 20, 4))]

\* Fault: the stride is the size field, without the four bytes of the field.
offset_to_next_size_only(self) == [value |-> self.size, overflow |-> FALSE]

\* Fault: the stride is the size of the record.
offset_to_next_record_size(self) == [value |-> U32(EntrySize), overflow |-> FALSE]

\* MemoryMapEntry::offset_to_next: self.size as usize + 4, usize being 32 bits
offset_to_next(self) == AddU32(self.size, U32(4))

\* From<&MemoryMapEntry> for MemoryRegion
MemoryRegion(entry) ==
    [base_addr |-> entry.base_addr,
     length |-> entry.length,
     kind |-> CASE entry.type = U32(1) -> "Available"
                [] entry.type = U32(3) -> "Acpi"
                [] entry.type = U32(4) -> "Reserved"
                [] entry.type = U32(5) -> "Defective"
                [] OTHER -> "Unknown"]

\* The length of the head align_to::<MemoryMapEntry>() returns.
HeadLen(buffer) ==
    LET offset == (EntryAlign - (buffer.ptr % EntryAlign)) % EntryAlign
    IN  IF offset > buffer.len THEN buffer.len ELSE offset

\* Fault: a call that finds no entry empties the slice.
next_consuming(mem, buffer, debug) ==
    LET stay(item, panic) == [buffer |-> buffer, item |-> item, panic |-> panic]
    IN  IF HeadLen(buffer) # 0 THEN stay(NoneView, TRUE)
        ELSE IF buffer.len \div EntrySize = 0
             THEN [buffer |-> [ptr |-> buffer.ptr + buffer.len, len |-> 0],
                   item |-> NoneView, panic |-> FALSE]
        ELSE LET entry == first(mem, buffer)
                 offset == offset_to_next(entry)
             IN  IF offset.overflow /\ debug THEN stay(NoneView, TRUE)
                 ELSE IF Exceeds(offset.value, buffer.len) THEN stay(NoneView, TRUE)
                 ELSE [buffer |-> [ptr |-> buffer.ptr + ToNat(offset.value),
                                   len |-> buffer.len - ToNat(offset.value)],
                       item |-> Some(MemoryRegion(entry)),
                       panic |-> FALSE]

\* MemoryMapIter::next on the slice `buffer`: the slice it leaves, the item it
\* returns, and whether it panicked (the assert_eq, the overflow check of the
\* addition where the build has it, the slice index).
next(mem, buffer, debug) ==
    LET stay(item, panic) == [buffer |-> buffer, item |-> item, panic |-> panic]
    IN  IF HeadLen(buffer) # 0 THEN stay(NoneView, TRUE)
        ELSE IF buffer.len \div EntrySize = 0 THEN stay(NoneView, FALSE)
        ELSE LET entry == first(mem, buffer)
                 offset == offset_to_next(entry)
             IN  IF offset.overflow /\ debug THEN stay(NoneView, TRUE)
                 ELSE IF Exceeds(offset.value, buffer.len) THEN stay(NoneView, TRUE)
                 ELSE [buffer |-> [ptr |-> buffer.ptr + ToNat(offset.value),
                                   len |-> buffer.len - ToNat(offset.value)],
                       item |-> Some(MemoryRegion(entry)),
                       panic |-> FALSE]

\* From<&[u8]> for MemoryMapIter
MemoryMapIter_from(buffer) == [buffer |-> buffer]

\* Fault: the clone starts at the end of the slice.
MemoryMapIter_clone_at_end(self) ==
    [buffer |-> [ptr |-> self.buffer.ptr + self.buffer.len, len |-> 0]]

\* #[derive(Clone)] for MemoryMapIter: the slice reference is copied.
MemoryMapIter_clone(self) == [buffer |-> self.buffer]

\* The entries a bootloader reports, of size 20 and of size 24.
Entries ==
    {[size |-> 20, base_addr |-> 0, length |-> 654336, type |-> 1],
     [size |-> 24, base_addr |-> 1048576, length |-> 132907008, type |-> 1],
     [size |-> 20, base_addr |-> 983040, length |-> 65536, type |-> 2]}

EntryLists == UNION {[1..n -> Entries] : n \in 0..MaxEntries}

\* Where the bootloader puts the map: an aligned and an unaligned address.
MapAddrs == {4096, 4098}

\* The most regions one iterator is followed through, and the most calls of
\* next() that return None.
MaxYielded == 5
MaxNones == 2

\* An iterator with the record of its calls: the regions it yielded, whether
\* its latest call returned None, how many calls returned None, whether it
\* panicked.
Fresh(it) ==
    [constructed |-> TRUE, buffer |-> it.buffer, yielded |-> <<>>,
     done |-> FALSE, nones |-> 0, panicked |-> FALSE]

\* The iterator `it` after a call of next() that ended as `r`.
Recorded(it, r) ==
    [it EXCEPT !.buffer = r.buffer,
               !.yielded = IF r.item.some THEN Append(@, r.item.value) ELSE @,
               !.done = ~r.panic /\ ~r.item.some,
               !.nones = IF ~r.panic /\ ~r.item.some THEN @ + 1 ELSE @,
               !.panicked = r.panic]

\* The iterator `it` after a call of next().
Stepped(it) == Recorded(it, next(memory, it.buffer, debug_assertions))

\* The iterator is followed further.
Followed(it) == Len(it.yielded) < MaxYielded /\ it.nones < MaxNones

\* A panic halts the kernel.
Running ==
    /\ iter # Absent
    /\ ~iter.panicked
    /\ clone # Absent => ~clone.panicked

InitMmap ==
    /\ debug_assertions \in BOOLEAN
    /\ \E addr \in MapAddrs : \E entries \in EntryLists :
           memory = [constructed |-> TRUE, addr |-> addr,
                     bytes |-> EncodeAll(entries), entries |-> entries]
    /\ iter = Absent
    /\ clone = Absent
    /\ chunk_iter = Absent
    /\ usable = Absent
    /\ AllocAbsent
    /\ HeaderAbsent
    /\ BootAbsent
    /\ RegionAbsent
    /\ KernelAbsent

IterFrom ==
    /\ iter = Absent
    /\ chunk_iter = Absent
    /\ iter' = Fresh(MemoryMapIter_from([ptr |-> memory.addr, len |-> Len(memory.bytes)]))
    /\ UNCHANGED <<debug_assertions, memory, clone, chunk_iter, usable, notMmap>>

IterNext ==
    /\ Running
    /\ Followed(iter)
    /\ iter' = Stepped(iter)
    /\ UNCHANGED <<debug_assertions, memory, clone, chunk_iter, usable, notMmap>>

IterClone ==
    /\ Running
    /\ clone' = Fresh(MemoryMapIter_clone(iter)) @@ [at |-> Len(iter.yielded)]
    /\ UNCHANGED <<debug_assertions, memory, iter, chunk_iter, usable, notMmap>>

CloneNext ==
    /\ Running
    /\ clone # Absent
    /\ Followed(clone)
    /\ clone' = Stepped(clone)
    /\ UNCHANGED <<debug_assertions, memory, iter, chunk_iter, usable, notMmap>>

NextMmap ==
    \/ IterFrom
    \/ IterNext
    \/ IterClone
    \/ CloneNext

SpecMmap == InitMmap /\ [][NextMmap]_vars

-----------------------------------------------------------------------------
(* Properties of the memory-map iterator *)

\* The buffer is one the iterator's alignment invariant admits.
WellFormed == memory.addr % EntryAlign = 0

\* The bytes the first n declared entries take.
RECURSIVE Stride(_, _)
Stride(entries, n) ==
    IF n = 0 THEN 0 ELSE Stride(entries, n - 1) + entries[n].size + 4

\* C19: over a well-formed buffer with entries of size 20 and of size 24 the
\* iterator yields one region per declared entry, in buffer order, with the
\* entry's base_addr and length, and has advanced by size + 4 bytes per entry;
\* it returns None only after the last entry.
C19_YieldsDeclaredRegions ==
    (iter # Absent /\ WellFormed)
        => /\ ~iter.panicked
           /\ Len(iter.yielded) <= Len(memory.entries)
           /\ \A i \in 1..Len(iter.yielded) :
                  /\ iter.yielded[i].base_addr = U32(memory.entries[i].base_addr)
                  /\ iter.yielded[i].length = U32(memory.entries[i].length)
           /\ iter.buffer.ptr = memory.addr + Stride(memory.entries, Len(iter.yielded))
           /\ iter.done => Len(iter.yielded) = Len(memory.entries)

\* C19 witness: a map of three entries of sizes 20, 24, 20 has been walked to
\* its end.
C19_Witness ==
    /\ iter # Absent
    /\ WellFormed
    /\ iter.done
    /\ Len(iter.yielded) = 3
    /\ memory.entries[1].size = 20
    /\ memory.entries[2].size = 24
    /\ memory.entries[3].size = 20

-----------------------------------------------------------------------------
(* Part C, continued: buffers that are not well formed, and the MemoryMap    *)
(* iterator of multiboot/src/lib.rs, which reads the same buffer.            *)

\* MemoryMapEntry::offset_to_next of multiboot/src/lib.rs
entry_offset_to_next(self) == AddU32(self.size, U32(4))

\* Into<MemoryChunk> for &MemoryMapEntry of multiboot/src/lib.rs
MemoryChunk(entry) ==
    [base_addr |-> entry.base_addr,
     length |-> entry.length,
     class |-> IF entry.type = U32(1) THEN "Available" ELSE "Unusable"]

\* MemoryMap::next of multiboot/src/lib.rs
MemoryMap_next(mem, buffer, debug) ==
    LET stay(item, panic) == [buffer |-> buffer, item |-> item, panic |-> panic]
    IN  IF HeadLen(buffer) # 0 THEN stay(NoneView, TRUE)
        ELSE IF buffer.len \div EntrySize = 0 THEN stay(NoneView, FALSE)
        ELSE LET entry == first(mem, buffer)
                 offset == entry_offset_to_next(entry)
             IN  IF offset.overflow /\ debug THEN stay(NoneView, TRUE)
                 ELSE IF Exceeds(offset.value, buffer.len) THEN stay(NoneView, TRUE)
                 ELSE [buffer |-> [ptr |-> buffer.ptr + ToNat(offset.value),
                                   len |-> buffer.len - ToNat(offset.value)],
                       item |-> Some(MemoryChunk(entry)),
                       panic |-> FALSE]

\* The size fields a malformed entry carries, as the bytes of the field: 0, 21,
\* 44, 256, 0xFFFFFFFC and 0xFFFFFFFF.
BadSizes ==
    {<<0, 0, 0, 0>>, <<21, 0, 0, 0>>, <<44, 0, 0, 0>>, <<0, 1, 0, 0>>,
     <<252, 255, 255, 255>>, <<255, 255, 255, 255>>}

\* The encoding of `entries` with the size field of entry k overwritten.
Overwritten(entries, k, size) ==
    LET bytes == EncodeAll(entries)
        at == Stride(entries, k - 1)
    IN  [i \in 1..Len(bytes) |-> IF i \in (at + 1)..(at + 4) THEN size[i - at] ELSE bytes[i]]

\* Any buffer: a well-formed one, or one with a malformed entry.
InitMmapAny ==
    /\ debug_assertions \in BOOLEAN
    /\ \E addr \in MapAddrs : \E entries \in EntryLists :
           \/ memory = [constructed |-> TRUE, addr |-> addr,
                        bytes |-> EncodeAll(entries), entries |-> entries]
           \/ \E k \in 1..Len(entries) : \E size \in BadSizes :
                  memory = [constructed |-> TRUE, addr |-> addr,
                            bytes |-> Overwritten(entries, k, size),
                            entries |-> entries]
    /\ iter = Absent
    /\ clone = Absent
    /\ chunk_iter = Absent
    /\ usable = Absent
    /\ AllocAbsent
    /\ HeaderAbsent
    /\ BootAbsent
    /\ RegionAbsent
    /\ KernelAbsent

\* BootInfo::memory_map of multiboot/src/lib.rs builds the MemoryMap over the
\* buffer.
MapFrom ==
    /\ iter = Absent
    /\ chunk_iter = Absent
    /\ chunk_iter' = Fresh([buffer |-> [ptr |-> memory.addr, len |-> Len(memory.bytes)]])
    /\ UNCHANGED <<debug_assertions, memory, iter, clone, usable, notMmap>>

MapNext ==
    /\ chunk_iter # Absent
    /\ ~chunk_iter.panicked
    /\ Followed(chunk_iter)
    /\ chunk_iter' = Recorded(chunk_iter,
                              MemoryMap_next(memory, chunk_iter.buffer, debug_assertions))
    /\ UNCHANGED <<debug_assertions, memory, iter, clone, usable, notMmap>>

NextMmapAny ==
    \/ IterFrom
    \/ IterNext
    \/ MapFrom
    \/ MapNext

SpecMmapAny == InitMmapAny /\ [][NextMmapAny]_vars

-----------------------------------------------------------------------------
(* Properties of the iterators over any buffer *)

\* No size field the iterator can read makes size + 4 overflow: the fields lie
\* at multiples of the entry's alignment, a read elsewhere panics first.
SizesFit(mem) ==
    \A i \in 0..(Len(mem.bytes) \div EntryAlign - 1) :
        ~AddU32(Bits(SubSeq(mem.bytes, EntryAlign * i + 1, EntryAlign * i + 4)),
                U32(4)).overflow

\* A call that returned Some shortened the slice by four bytes or more, and the
\* regions yielded are no more than a quarter of the buffer's length.
ShortenedBy4(before, after) ==
    (before # Absent /\ after # Absent)
        => /\ Len(after.yielded) > Len(before.yielded)
                => after.buffer.len <= before.buffer.len - 4
           /\ Len(after.yielded) <= Len(memory.bytes) \div 4

\* The call did not panic.
Returned_(before, after) ==
    (before # Absent /\ after # Absent) => ~after.panicked

\* C21 as stated: with no size + 4 overflowing, every call of next() returns,
\* a call that returns Some shortens the slice by at least 4 bytes, and None
\* comes after at most mmap_length / 4 calls.
C21_ShortensThenNone ==
    [][\/ /\ ShortenedBy4(iter, iter') /\ Returned_(iter, iter')
          /\ ShortenedBy4(chunk_iter, chunk_iter')
          /\ Returned_(chunk_iter, chunk_iter')
       \/ ~SizesFit(memory)]_vars

\* C21 amended: with no size + 4 overflowing, a call of next() that returns
\* Some shortens the slice by at least 4 bytes, so at most mmap_length / 4
\* calls return Some; the call after them returns None or panics.
C21_ShortensThenStops ==
    [][\/ /\ ShortenedBy4(iter, iter')
          /\ ShortenedBy4(chunk_iter, chunk_iter')
       \/ ~SizesFit(memory)]_vars

\* C21 witness: an entry of size 0 has been yielded and the slice is 4 bytes
\* shorter than the buffer.
C21_Witness ==
    /\ iter # Absent
    /\ Len(iter.yielded) = 1
    /\ iter.buffer.len = Len(memory.bytes) - 4
    /\ SizesFit(memory)

\* Once next() has returned None, a call leaves the iterator as it is and
\* returns None again.
StaysExhausted(before, after) ==
    (before # Absent /\ after # Absent /\ after # before)
        => /\ after.nones > before.nones => after.buffer = before.buffer
           /\ before.nones > 0
                => /\ after.buffer = before.buffer
                   /\ after.yielded = before.yielded
                   /\ after.nones = before.nones + 1
                   /\ after.done /\ ~after.panicked

\* C22: a call of next() that returns None leaves the buffer unchanged, and
\* every later call returns None as well.
C22_ExhaustedStaysExhausted ==
    [][StaysExhausted(iter, iter') /\ StaysExhausted(chunk_iter, chunk_iter')]_vars

\* C22 witness: an iterator that yielded a region has returned None twice.
C22_Witness ==
    /\ iter # Absent
    /\ Len(iter.yielded) > 0
    /\ iter.nones = 2

-----------------------------------------------------------------------------
(* Part D: the region algebra of types/src/mem.rs (MemoryRegion, RangeFilter) *)
(* and MemoryChunk of src/mem/physical.rs.  Addresses are u64; the regions   *)
(* and bounds of the model are small numbers, far from 2^64, so base + length *)
(* does not overflow.                                                        *)

\* The largest base address and the largest length of a region.
MaxAddr == 2

\* The bounds passed to the methods.
Addrs == 0..(2 * MaxAddr)

\* MemoryRegion::end_addr
end_addr(self) == self.base_addr + self.length

\* MemoryRegion::crop_start
crop_start(self, min_addr) ==
    IF min_addr < end_addr(self)
    THEN Some([self EXCEPT !.base_addr = min_addr,
                           !.length = end_addr(self) - max(self.base_addr, min_addr)])
    ELSE NoneView

\* MemoryRegion::crop_end
crop_end(self, max_addr) ==
    IF max_addr > self.base_addr
    THEN Some([self EXCEPT !.length = IF max_addr < end_addr(self)
                                      THEN min(end_addr(self), max_addr) - self.base_addr
                                      ELSE self.length])
    ELSE NoneView

\* MemoryRegion::crop: crop_start(..).and_then(|chunk| chunk.crop_end(..))
crop(self, min_addr, max_addr) ==
    LET start == crop_start(self, min_addr)
    IN  IF start.some THEN crop_end(start.value, max_addr) ELSE NoneView

\* MemoryChunk::end_addr and MemoryChunk::crop_start of src/mem/physical.rs
MemoryChunk_end_addr(self) == self.base_addr + self.length

MemoryChunk_crop_start(self, min_addr) ==
    IF min_addr < MemoryChunk_end_addr(self)
    THEN Some([self EXCEPT !.base_addr = min_addr,
                           !.length = MemoryChunk_end_addr(self)
                                          - max(self.base_addr, min_addr)])
    ELSE NoneView

\* The regions the methods are called on.
Regions == [base_addr : 0..MaxAddr, length : 0..MaxAddr, class : {"Available", "Unusable"}]

\* No bound was passed.
NoAddr == -1

\* A region is at hand: it counts as the result of a call "new".
InitRegion ==
    /\ debug_assertions \in BOOLEAN
    /\ \E region \in Regions :
           call = [constructed |-> TRUE, fn |-> "new", self |-> region,
                   min_addr |-> NoAddr, max_addr |-> NoAddr,
                   result |-> Some(region), prev |-> Absent]
    /\ source = Absent
    /\ views = Absent
    /\ boot_memory = Absent
    /\ KernelAbsent
    /\ AllocAbsent
    /\ HeaderAbsent
    /\ BootAbsent
    /\ MmapAbsent

\* The method `fn` was called on the region the latest call returned; the call
\* before is kept with it.
Cropped(fn, min_addr, max_addr, result) ==
    /\ call' = [constructed |-> TRUE, fn |-> fn, self |-> call.result.value,
                min_addr |-> min_addr, max_addr |-> max_addr, result |-> result,
                prev |-> [call EXCEPT !.prev = Absent]]
    /\ UNCHANGED <<debug_assertions, source, views, boot_memory, notRegion>>

CropStart ==
    /\ call # Absent /\ call.result.some
    /\ \E min_addr \in Addrs :
           Cropped("crop_start", min_addr, NoAddr,
                   crop_start(call.result.value, min_addr))

CropEnd ==
    /\ call # Absent /\ call.result.some
    /\ \E max_addr \in Addrs :
           Cropped("crop_end", NoAddr, max_addr,
                   crop_end(call.result.value, max_addr))

Crop ==
    /\ call # Absent /\ call.result.some
    /\ \E min_addr \in Addrs : \E max_addr \in Addrs :
           Cropped("crop", min_addr, max_addr,
                   crop(call.result.value, min_addr, max_addr))

ChunkCropStart ==
    /\ call # Absent /\ call.result.some
    /\ \E min_addr \in Addrs :
           Cropped("MemoryChunk::crop_start", min_addr, NoAddr,
                   MemoryChunk_crop_start(call.result.value, min_addr))

NextRegion ==
    \/ CropStart
    \/ CropEnd
    \/ Crop
    \/ ChunkCropStart

SpecRegion == InitRegion /\ [][NextRegion]_vars

-----------------------------------------------------------------------------
(* Properties of the region algebra *)

\* C23: on a region [base, end) with length > 0, crop_start(min) returns None
\* when min >= end, and otherwise the region [max(base, min), end) of the same
\* class.
C23_CropStart ==
    (/\ call # Absent
     /\ call.fn \in {"crop_start", "MemoryChunk::crop_start"}
     /\ call.self.length > 0)
        => LET end == call.self.base_addr + call.self.length
           IN  IF call.min_addr >= end THEN ~call.result.some
               ELSE /\ call.result.some
                    /\ call.result.value.base_addr = max(call.self.base_addr, call.min_addr)
                    /\ call.result.value.base_addr + call.result.value.length = end
                    /\ call.result.value.class = call.self.class

\* C24: crop(a, b) followed by crop(c, d) equals crop(max(a, c), min(b, d)),
\* where both are non-empty.
C24_CropComposes ==
    (/\ call # Absent
     /\ call.fn = "crop"
     /\ call.prev.fn = "crop"
     /\ call.result.some)
        => LET direct == crop(call.prev.self, max(call.prev.min_addr, call.min_addr),
                              min(call.prev.max_addr, call.max_addr))
           IN  direct.some => direct.value = call.result.value

-----------------------------------------------------------------------------
(* Part D, continued: RangeFilter.  The iterator T it wraps is a list of     *)
(* regions and a position in it; a clone of it is a copy of both.            *)

\* The most regions a source iterator holds.
MaxRegions == 2

\* Iterator::next of the wrapped iterator T
inner_next(it) ==
    IF it.pos <= Len(it.regions)
    THEN [iter |-> [it EXCEPT !.pos = @ + 1], item |-> Some(it.regions[it.pos])]
    ELSE [iter |-> it, item |-> NoneView]

\* MemoryRegion::with_end_addr
with_end_addr(self, end) == [self EXCEPT !.length = end - self.base_addr]

\* Fault: a region that ends where the window starts counts as overlapping.
overlaps_with_touching(self, region) ==
    ~(end_addr(region) < self.start
        \/ (IF self.end.some THEN region.base_addr >= self.end.value ELSE FALSE))

\* RangeFilter::overlaps_with
overlaps_with(self, region) ==
    ~(end_addr(region) <= self.start
        \/ (IF self.end.some THEN region.base_addr >= self.end.value ELSE FALSE))

\* RangeFilter::next with the wrapped iterator in state `it`: the iterator is
\* advanced past the regions that do not overlap; the first that does is
\* returned clipped to the window.
RECURSIVE RangeFilter_next(_, _)
RangeFilter_next(self, it) ==
    LET got == inner_next(it)
    IN  IF ~got.item.some THEN [iter |-> got.iter, item |-> NoneView]
        ELSE IF ~overlaps_with(self, got.item.value) THEN RangeFilter_next(self, got.iter)
        ELSE [iter |-> got.iter,
              item |-> Some(with_end_addr(
                           [got.item.value EXCEPT
                                !.base_addr = max(self.start, got.item.value.base_addr)],
                           IF self.end.some
                           THEN min(self.end.value, end_addr(got.item.value))
                           ELSE end_addr(got.item.value)))]

\* Each RangeFilter owns the iterator it wraps: `iters` are the iterators in
\* existence and the field iter of a filter is the place of its own.

\* RangeFilterExt::filter_range
filter_range(self, start, end) ==
    [iters |-> <<self>>, filters |-> <<[iter |-> 1, start |-> start, end |-> end]>>]

\* Fault: the second view starts at 0 like the first.
split_once_both_from_zero(self, addr) ==
    [iters |-> <<self, self>>,
     filters |-> <<[iter |-> 1, start |-> 0, end |-> Some(addr)],
                   [iter |-> 2, start |-> 0, end |-> NoneView]>>]

\* Fault: the first view wraps the iterator itself and not a clone of it.
split_once_shared(self, addr) ==
    [iters |-> <<self>>,
     filters |-> <<[iter |-> 1, start |-> 0, end |-> Some(addr)],
                   [iter |-> 1, start |-> addr, end |-> NoneView]>>]

\* RangeFilterExt::split_once: the first view wraps self.clone(), the second
\* self.
split_once(self, addr) ==
    [iters |-> <<self, self>>,
     filters |-> <<[iter |-> 1, start |-> 0, end |-> Some(addr)],
                   [iter |-> 2, start |-> addr, end |-> NoneView]>>]

\* The source iterators: up to MaxRegions regions in any order, overlapping or
\* not, empty regions among them, all of one class.
Sources ==
    UNION {{[i \in 1..n |-> [base_addr |-> shape[i][1], length |-> shape[i][2],
                             class |-> class]] :
                shape \in [1..n -> (0..MaxAddr) \X (0..MaxAddr)],
                class \in {"Available", "Unusable"}} :
           n \in 0..MaxRegions}

\* A RangeFilter with the record of its calls.
FreshView(filter) == [filter |-> filter, yielded |-> <<>>, done |-> FALSE]

\* The filters just built, none called yet.
Built(by, made) ==
    [constructed |-> TRUE, by |-> by, iters |-> made.iters,
     view |-> [i \in 1..Len(made.filters) |-> FreshView(made.filters[i])]]

InitFilter ==
    /\ debug_assertions = FALSE
    /\ \E regions \in Sources :
           source = [constructed |-> TRUE, regions |-> regions, pos |-> 1]
    /\ views = Absent
    /\ call = Absent
    /\ boot_memory = Absent
    /\ KernelAbsent
    /\ AllocAbsent
    /\ HeaderAbsent
    /\ BootAbsent
    /\ MmapAbsent

\* filter_range(start, end) with start < end, or without an end.
FilterRange ==
    /\ views = Absent
    /\ \E start \in Addrs :
         \E end \in {Some(e) : e \in {a \in Addrs : a > start}} \cup {NoneView} :
           views' = Built("filter_range", filter_range(source, start, end))
    /\ UNCHANGED <<debug_assertions, call, source, boot_memory, notRegion>>

SplitOnce ==
    /\ views = Absent
    /\ \E addr \in Addrs : views' = Built("split_once", split_once(source, addr))
    /\ UNCHANGED <<debug_assertions, call, source, boot_memory, notRegion>>

\* next() on one of the views; a view that returned None is not called again.
ViewNext ==
    /\ views # Absent
    /\ \E i \in 1..Len(views.view) :
           LET view == views.view[i]
               r == RangeFilter_next(view.filter, views.iters[view.filter.iter])
           IN  /\ ~view.done
               /\ views' = [views EXCEPT
                                !.iters[view.filter.iter] = r.iter,
                                !.view[i].yielded = IF r.item.some
                                                    THEN Append(@, r.item.value) ELSE @,
                                !.view[i].done = ~r.item.some]
    /\ UNCHANGED <<debug_assertions, call, source, boot_memory, notRegion>>

NextFilter ==
    \/ FilterRange
    \/ SplitOnce
    \/ ViewNext

SpecFilter == InitFilter /\ [][NextFilter]_vars

-----------------------------------------------------------------------------
(* Properties of the range filters *)

\* The region has an address in the window [start, end).
SharesAddress(region, start, end) ==
    \E a \in region.base_addr..(region.base_addr + region.length - 1) :
        a >= start /\ (end.some => a < end.value)

\* The region is empty and lies strictly inside the window.
EmptyInside(region, start, end) ==
    /\ region.length = 0
    /\ region.base_addr > start
    /\ end.some => region.base_addr < end.value

\* The intersection of the region with the window, of the region's class.
Intersection(region, start, end) ==
    LET base == max(region.base_addr, start)
        stop == IF end.some THEN min(region.base_addr + region.length, end.value)
                ELSE region.base_addr + region.length
    IN  [base_addr |-> base, length |-> stop - base, class |-> region.class]

\* The intersections of the regions that have an address in the window, in
\* order; with `empties`, also the empty regions strictly inside it.
RECURSIVE Clipped(_, _, _, _)
Clipped(regions, start, end, empties) ==
    IF regions = <<>> THEN <<>>
    ELSE LET region == Head(regions)
             rest == Clipped(Tail(regions), start, end, empties)
         IN  IF \/ SharesAddress(region, start, end)
                \/ empties /\ EmptyInside(region, start, end)
             THEN <<Intersection(region, start, end)>> \o rest
             ELSE rest

\* What the view has yielded is the start of `all`, and all of it at the end.
YieldsOf(view, all) ==
    /\ Len(view.yielded) <= Len(all)
    /\ view.yielded = SubSeq(all, 1, Len(view.yielded))
    /\ view.done => view.yielded = all

RECURSIVE NonEmpty(_)
NonEmpty(regions) ==
    IF regions = <<>> THEN <<>>
    ELSE (IF Head(regions).length > 0 THEN <<Head(regions)>> ELSE <<>>)
             \o NonEmpty(Tail(regions))

\* The lengths of the regions, summed.
RECURSIVE SumLengths(_)
SumLengths(regions) ==
    IF regions = <<>> THEN 0 ELSE Head(regions).length + SumLengths(Tail(regions))

\* The non-empty regions the view has yielded are the start of `all`, and all
\* of it at the end.
YieldsPartsOf(view, all) ==
    LET parts == NonEmpty(view.yielded)
    IN  /\ Len(parts) <= Len(all)
        /\ parts = SubSeq(all, 1, Len(parts))
        /\ view.done => parts = all

\* C26: split_once(addr) partitions the map: the first view yields each
\* region's part below addr, the second each region's part at or above addr,
\* in order; no yielded region of the first view reaches addr and none of the
\* second starts below it; the lengths of both views sum to the lengths of the
\* source regions.
C26_SplitOncePartitions ==
    (views # Absent /\ views.by = "split_once")
        => LET below == views.view[1]
               above == views.view[2]
               addr == views.view[1].filter.end.value
           IN  /\ YieldsPartsOf(below, Clipped(source.regions, 0, Some(addr), FALSE))
               /\ YieldsPartsOf(above, Clipped(source.regions, addr, NoneView, FALSE))
               /\ \A i \in 1..Len(below.yielded) :
                      below.yielded[i].base_addr + below.yielded[i].length <= addr
               /\ \A i \in 1..Len(above.yielded) : above.yielded[i].base_addr >= addr
               /\ (below.done /\ above.done)
                      => SumLengths(below.yielded) + SumLengths(above.yielded)
                             = SumLengths(source.regions)

\* C26 witness: a map of one region was split inside the region, and each view
\* has yielded its part and is exhausted.
C26_Witness ==
    /\ views # Absent
    /\ views.by = "split_once"
    /\ Len(source.regions) = 1
    /\ views.view[1].done /\ views.view[2].done
    /\ Len(views.view[1].yielded) = 1 /\ views.view[1].yielded[1].length > 0
    /\ Len(views.view[2].yielded) = 1 /\ views.view[2].yielded[1].length > 0

\* What a filter over the iterator `it` yields when it is consumed alone.
RECURSIVE Exhaust(_, _)
Exhaust(self, it) ==
    LET r == RangeFilter_next(self, it)
    IN  IF r.item.some THEN <<r.item.value>> \o Exhaust(self, r.iter) ELSE <<>>

\* C27: under every interleaving of next() calls each view of split_once
\* yields what it yields when consumed alone, and a call on one view leaves
\* the other as it was.
C27_ViewsIndependent ==
    [][(views' # Absent /\ views'.by = "split_once")
          => /\ \A i \in 1..2 :
                    YieldsOf(views'.view[i], Exhaust(views'.view[i].filter, source'))
             /\ views # Absent
                    => \/ views'.view[1] = views.view[1]
                       \/ views'.view[2] = views.view[2]]_vars

\* C27 witness: both views of a map of two regions are exhausted, the first
\* having yielded one region and the second two.
C27_Witness ==
    /\ views # Absent
    /\ views.by = "split_once"
    /\ Len(source.regions) = 2
    /\ views.view[1].done /\ views.view[2].done
    /\ Len(views.view[1].yielded) = 1
    /\ Len(views.view[2].yielded) = 2

-----------------------------------------------------------------------------
(* Part C, continued: filter_usable over the memory map the bootloader       *)
(* reports, converted to the kernel's regions.                               *)

\* From<multiboot::mmap::MemoryRegionKind> for MemoryRegionType
MemoryRegionType(kind) == IF kind = "Available" THEN "Available" ELSE "Unusable"

\* From<multiboot::mmap::MemoryRegion> for MemoryRegion of types/src/mem.rs
MemoryRegion_from(value) ==
    [base_addr |-> value.base_addr,
     length |-> value.length,
     class |-> MemoryRegionType(value.kind)]

\* Fault: every region counts as usable.
is_usable_always(self) == TRUE

\* MemoryRegion::is_usable
is_usable(self) == self.class = "Available"

\* next() of memory_map().map(Into::into): the region the iterator yields,
\* converted.
Map_next(mem, buffer, debug) ==
    LET r == next(mem, buffer, debug)
    IN  [r EXCEPT !.item = IF @.some THEN Some(MemoryRegion_from(@.value)) ELSE @]

\* next() of .filter(MemoryRegion::is_usable): the first region from the slice
\* on that is usable.
RECURSIVE Filter_next(_, _, _)
Filter_next(mem, buffer, debug) ==
    LET r == Map_next(mem, buffer, debug)
    IN  IF r.panic \/ ~r.item.some THEN r
        ELSE IF is_usable(r.item.value) THEN r
        ELSE Filter_next(mem, r.buffer, debug)

\* MemoryMap::filter_usable(&self): the iterator it is called on, as the call
\* leaves it, and the iterator the returned filter wraps.
filter_usable(self) == [self |-> self, iter |-> MemoryMapIter_clone(self)]

\* Entries of every type code: two Available ones, ACPI, Reserved, Defective,
\* and a code that is none of them but has the low byte of Available.
UsableEntries ==
    {[size |-> 20, base_addr |-> 0, length |-> 654336, type |-> 1],
     [size |-> 24, base_addr |-> 1048576, length |-> 132907008, type |-> 1],
     [size |-> 20, base_addr |-> 134086656, length |-> 131072, type |-> 3],
     [size |-> 20, base_addr |-> 983040, length |-> 65536, type |-> 4],
     [size |-> 20, base_addr |-> 655360, length |-> 4096, type |-> 5],
     [size |-> 20, base_addr |-> 659456, length |-> 4096, type |-> 257]}

\* The maps: up to MaxEntries entries, each region reported once.
UsableEntryLists ==
    UNION {{list \in [1..n -> UsableEntries] :
               \A i, j \in 1..n : list[i] = list[j] => i = j} : n \in 0..MaxEntries}

InitUsable ==
    /\ debug_assertions \in BOOLEAN
    /\ \E addr \in MapAddrs : \E entries \in UsableEntryLists :
           memory = [constructed |-> TRUE, addr |-> addr,
                     bytes |-> EncodeAll(entries), entries |-> entries]
    /\ iter = Absent
    /\ clone = Absent
    /\ chunk_iter = Absent
    /\ usable = Absent
    /\ AllocAbsent
    /\ HeaderAbsent
    /\ BootAbsent
    /\ RegionAbsent
    /\ KernelAbsent

FilterUsable ==
    /\ Running
    /\ LET r == filter_usable([buffer |-> iter.buffer])
       IN  /\ iter' = [iter EXCEPT !.buffer = r.self.buffer]
           /\ usable' = Fresh(r.iter) @@ [at |-> Len(iter.yielded)]
    /\ UNCHANGED <<debug_assertions, memory, clone, chunk_iter, notMmap>>

UsableNext ==
    /\ Running
    /\ usable # Absent
    /\ ~usable.panicked
    /\ Followed(usable)
    /\ usable' = Recorded(usable, Filter_next(memory, usable.buffer, debug_assertions))
    /\ UNCHANGED <<debug_assertions, memory, iter, clone, chunk_iter, notMmap>>

NextUsable ==
    \/ IterFrom
    \/ IterNext
    \/ FilterUsable
    \/ UsableNext

SpecUsable == InitUsable /\ [][NextUsable]_vars

-----------------------------------------------------------------------------
(* Properties of filter_usable *)

\* The declared entries after the first `from` whose type code is 1, as the
\* regions they stand for.
RECURSIVE AvailableFrom(_, _)
AvailableFrom(entries, from) ==
    IF from >= Len(entries) THEN <<>>
    ELSE LET e == entries[from + 1]
         IN  (IF e.type = 1
              THEN <<[base_addr |-> U32(e.base_addr), length |-> U32(e.length),
                      class |-> "Available"]>>
              ELSE <<>>) \o AvailableFrom(entries, from + 1)

\* `s` is the start of `t`.
StartOf(s, t) == Len(s) <= Len(t) /\ s = SubSeq(t, 1, Len(s))

\* C28: what filter_usable() has yielded is the start of the list of the
\* declared entries of type code 1 from the place of the call on, with their
\* base_addr and length, in order, and all of that list once the filter
\* returns None: no entry of type 3, 4, 5 or of another code is yielded; and
\* neither the call of filter_usable nor a call of next() on the filter moves
\* the iterator filter_usable was called on.
C28_FilterUsable ==
    [][usable' # usable
          => /\ iter' = iter
             /\ StartOf(usable'.yielded, AvailableFrom(memory.entries, usable'.at))
             /\ usable'.done
                    => usable'.yielded = AvailableFrom(memory.entries, usable'.at)]_vars

\* C28 witness: over a map of an ACPI entry, an Available entry and an entry
\* of another code, the filter taken at the start has yielded one region and
\* returned None, and the iterator it was called on has yielded nothing.
C28_Witness ==
    /\ iter # Absent
    /\ usable # Absent
    /\ usable.at = 0
    /\ usable.done
    /\ Len(usable.yielded) = 1
    /\ iter.yielded = <<>>
    /\ Len(memory.entries) = 3
    /\ memory.entries[1].type = 3
    /\ memory.entries[2].type = 1
    /\ memory.entries[3].type = 257

-----------------------------------------------------------------------------
(* Part E: bootstrap_subsystem of kernel/src/mem/mod.rs selects the boot     *)
(* window from the memory map.                                               *)

MiB == 1024 * 1024

\* pub const PHYS_MAP_LIMIT: u64 = 0x0800_0000; // 128 MiB
PHYS_MAP_LIMIT == 128 * MiB

\* bootstrap_subsystem: the last of the usable regions that crop to
\* [0x0200_0000, PHYS_MAP_LIMIT), or the panic of expect().
bootstrap_subsystem(map) ==
    LET usable_regions == SelectSeq(map, is_usable)
        cropped(i) == crop(usable_regions[i], 32 * MiB, PHYS_MAP_LIMIT)
        kept == {i \in 1..Len(usable_regions) : cropped(i).some}
    IN  IF kept = {}
        THEN [outcome |-> "panic",
              message |-> "Cannot find a suitable chunk of temporary boot memory.",
              tmp_allocator_memory |-> Absent]
        ELSE [outcome |-> "returned",
              message |-> "",
              tmp_allocator_memory |->
                  cropped(CHOOSE i \in kept : \A j \in kept : j <= i).value]

\* Base and length, in MiB, of the regions a map reports: below the window,
\* touching it from below, across its start, inside it, empty inside it, across
\* its end, touching it from above, above it, and across all of it.
BootShapes ==
    {<<0, 16>>, <<16, 16>>, <<16, 32>>, <<48, 16>>, <<48, 0>>, <<112, 32>>,
     <<128, 16>>, <<144, 16>>, <<0, 160>>}

BootRegions ==
    {[base_addr |-> shape[1] * MiB, length |-> shape[2] * MiB, class |-> class] :
        shape \in BootShapes, class \in {"Available", "Unusable"}}

BootMaps == UNION {[1..n -> BootRegions] : n \in 0..MaxRegions}

InitBootstrap ==
    /\ debug_assertions \in BOOLEAN
    /\ \E regions \in BootMaps :
           source = [constructed |-> TRUE, regions |-> regions, pos |-> 1]
    /\ call = Absent
    /\ views = Absent
    /\ boot_memory = Absent
    /\ KernelAbsent
    /\ AllocAbsent
    /\ HeaderAbsent
    /\ BootAbsent
    /\ MmapAbsent

BootstrapSubsystem ==
    /\ boot_memory = Absent
    /\ boot_memory' = [constructed |-> TRUE] @@ bootstrap_subsystem(source.regions)
    /\ UNCHANGED <<debug_assertions, call, source, views, notRegion>>

NextBootstrap == BootstrapSubsystem

SpecBootstrap == InitBootstrap /\ [][NextBootstrap]_vars

-----------------------------------------------------------------------------
(* Properties of bootstrap_subsystem *)

\* The region is Available and has an address in [0x0200_0000, PHYS_MAP_LIMIT).
InBootWindow(region) ==
    /\ region.class = "Available"
    /\ max(region.base_addr, 32 * MiB) < min(end_addr(region), PHYS_MAP_LIMIT)

\* C29: the selected boot window is the intersection of
\* [0x0200_0000, PHYS_MAP_LIMIT) with the last region of the map that is
\* Available and intersects that window.
C29_BootWindowIsIntersection ==
    (boot_memory # Absent /\ boot_memory.outcome = "returned")
        => \E i \in 1..Len(source.regions) :
               /\ InBootWindow(source.regions[i])
               /\ \A j \in (i + 1)..Len(source.regions) : ~InBootWindow(source.regions[j])
               /\ boot_memory.tmp_allocator_memory.base_addr
                      = max(source.regions[i].base_addr, 32 * MiB)
               /\ end_addr(boot_memory.tmp_allocator_memory)
                      = min(end_addr(source.regions[i]), PHYS_MAP_LIMIT)

\* C30: bootstrap_subsystem panics exactly when the map has no Available
\* region that intersects [0x0200_0000, 0x0800_0000).
C30_PanicsIffNoRegion ==
    boot_memory # Absent
        => (boot_memory.outcome = "panic"
               <=> ~\E i \in 1..Len(source.regions) : InBootWindow(source.regions[i]))

-----------------------------------------------------------------------------
(* Part A, continued: which block an alloc takes, what it leaves, and what   *)
(* the allocator hands out under allocations that are kept and freed.        *)

\* C33 as stated: when alloc(size) returns Some(addr), no free block of size at
\* least next_power_of_two(size) starts at an address lower than addr.
C33_LowestAddressFirst ==
    [][(last'.op = "alloc" /\ last'.result # None /\ outstanding' # outstanding)
          => \A b \in Blocks(free_lists) :
                 2^b[1] >= last'.size => b[2] >= last'.result]_vars

\* C33 as amended: when alloc(size) returns Some(addr), addr is the lowest
\* address of the first non-empty slot at or above the class of
\* next_power_of_two(size): no free block of that slot, and none of a smaller
\* slot that fits, starts lower than addr; a free block of a larger slot may.
C33_LowestOfServingSlot ==
    [][(last'.op = "alloc" /\ last'.result # None /\ outstanding' # outstanding)
          => LET c == trailing_zeros(last'.size)
             IN  \A b \in Blocks(free_lists) :
                     (b[1] >= c /\ b[1] <= LowestSlot(c)) => b[2] >= last'.result]_vars

\* C33 witness: an alloc returned an address although a free block of a larger
\* slot starts below it, and a block of the serving slot lies above it.
C33_Witness ==
    /\ last.op = "alloc"
    /\ last.result # None
    /\ \E b \in Blocks(free_lists) : 2^b[1] > last.size /\ b[2] < last.result
    /\ \E a \in free_lists[trailing_zeros(last.size)] : a > last.result

\* alloc of any of the counts, the allocation kept.
AllocAnyKept ==
    \E count \in Counts :
        /\ ~panicked
        /\ BagCardinality(outstanding) < MaxKept
        /\ Kept(alloc(Self, count, debug_assertions), count,
                alloc_size(count, debug_assertions))

NextChurn == AddRange \/ AllocAnyKept \/ AllocAligned \/ Dealloc \/ DeallocAligned

\* Clients that add disjoint ranges, keep several allocations and free them
\* in any order with the arguments they were made with.
SpecChurn == Init /\ [][NextChurn]_vars

\* C34: the outstanding allocations [addr, addr + rounded size) and the free
\* blocks are pairwise disjoint, and each lies inside the union of the
\* inserted ranges.
C34_NoUnitTwice ==
    /\ \A a \in BagToSet(outstanding) :
           /\ CopiesIn(a, outstanding) = 1
           /\ AllocUnits(a) \subseteq inserted
           /\ \A b \in BagToSet(outstanding) :
                  a # b => AllocUnits(a) \cap AllocUnits(b) = {}
    /\ \A b \in Blocks(free_lists) :
           /\ Units(b) \subseteq inserted
           /\ \A c \in Blocks(free_lists) : b # c => Units(b) \cap Units(c) = {}
    /\ AllocCover(outstanding) \cap Cover(Blocks(free_lists)) = {}

\* C34 witness: two allocations are outstanding after a third was freed; the
\* slot of the freed size is empty and a larger slot holds a free block.
C34_Witness ==
    /\ last.op = "dealloc"
    /\ BagCardinality(outstanding) = 2
    /\ \E k \in Slots : k > trailing_zeros(CeilPow2(last.charged)) /\ free_lists[k] # {}
    /\ free_lists[trailing_zeros(CeilPow2(last.charged))] = {}
    /\ ~panicked

\* C35: alloc_power_of_two(2^c) with c < ORDER returns Some exactly when some
\* slot j with c <= j < ORDER is non-empty, and the split loop started at the
\* first such slot runs to its end without taking its None branch.
C35_SucceedsIffSlotNonEmpty ==
    [][(IsAlloc(last'.op) /\ last'.size >= 1 /\ last'.size < 2^ORDER)
          => LET c == trailing_zeros(last'.size)
                 i == first_non_empty(free_lists, c)
             IN  /\ (last'.result # None)
                        <=> (\E j \in Slots : j >= c /\ free_lists[j] # {})
                 /\ ~panicked'
                 /\ i < ORDER => split_buffers(free_lists, i, c).ok]_vars

\* C35 witness: alloc_power_of_two(2) returned None while a unit of slot 0 is
\* free and the slots from 1 on are empty.
C35_Witness ==
    /\ IsAlloc(last.op)
    /\ last.size = 2
    /\ last.result = None
    /\ free_lists[0] # {}
    /\ \A j \in Slots : j >= 1 => free_lists[j] = {}

\* C36: an alloc_power_of_two(2^c) served from the first non-empty slot i > c
\* returns the smallest address a of slot i, takes a out of slot i, and leaves
\* in each slot j with c <= j < i exactly the block a + 2^j; the slots below c
\* and above i are as before.
C36_SplitLeavesUpperHalves ==
    [][(IsAlloc(last'.op) /\ last'.result # None /\ outstanding' # outstanding
           /\ LowestSlot(trailing_zeros(last'.size)) > trailing_zeros(last'.size))
          => LET c == trailing_zeros(last'.size)
                 i == LowestSlot(c)
                 a == last'.result
             IN  /\ a = SetMin(free_lists[i])
                 /\ \A j \in Slots :
                        free_lists'[j] =
                            CASE j = i -> free_lists[j] \ {a}
                              [] j >= c /\ j < i -> {a + 2^j}
                              [] OTHER -> free_lists[j]]_vars

\* C36 witness: alloc(1) was served from the one block of four units that
\* add_range(0..4) inserted; slot 0 holds a + 1 and slot 1 holds a + 2.
C36_Witness ==
    /\ IsAlloc(last.op)
    /\ last.size = 1
    /\ last.result # None
    /\ ranges = 1
    /\ inserted = 0..3
    /\ free_lists[0] = {last.result + 1}
    /\ free_lists[1] = {last.result + 2}
    /\ free_lists[2] = {}

\* C37: an alloc or alloc_aligned call that returns None leaves every free
\* list, total and allocated as they were before the call.
C37_NoneLeavesStateUnchanged ==
    [][(IsAlloc(last'.op) /\ last'.result = None /\ ~panicked')
          => /\ free_lists' = free_lists
             /\ total' = total
             /\ allocated' = allocated]_vars

\* C37 witness: alloc_aligned returned None, for a layout whose alignment is
\* beyond the largest block, while free blocks were there.
C37_Witness ==
    /\ last.op = "alloc_aligned"
    /\ last.result = None
    /\ last.size = 2^ORDER
    /\ ~panicked
    /\ FreeUnits > 0

-----------------------------------------------------------------------------
(* Part D, continued: the pages of a region.                                 *)

\* `as usize`: the value modulo the word.
as_usize(value) == value % 2^UsizeBits

\* MemoryRegion::first_page, last_page, page_count
first_page(self) == as_usize(self.base_addr \div 4096)

last_page(self) == as_usize((self.base_addr + self.length) \div 4096)

page_count(self) == last_page(self) - first_page(self) + 1

\* MemoryChunk::page_count of src/mem/physical.rs
MemoryChunk_page_count(self) ==
    as_usize((self.base_addr + self.length) \div 4096)
        - as_usize(self.base_addr \div 4096) + 1

\* Regions whose base and length are multiples of half a page: aligned and
\* unaligned ones, empty ones included.
PageRegions ==
    [base_addr : {k * 2048 : k \in 0..(2 * MaxAddr)},
     length : {k * 2048 : k \in 0..(2 * MaxAddr)},
     class : {"Available", "Unusable"}]

InitPages ==
    /\ debug_assertions \in BOOLEAN
    /\ \E region \in PageRegions :
           call = [constructed |-> TRUE, fn |-> "new", self |-> region,
                   min_addr |-> NoAddr, max_addr |-> NoAddr,
                   result |-> Some(region), prev |-> Absent]
    /\ source = Absent
    /\ views = Absent
    /\ boot_memory = Absent
    /\ KernelAbsent
    /\ AllocAbsent
    /\ HeaderAbsent
    /\ BootAbsent
    /\ MmapAbsent

\* The method `fn` was called on the region at hand and returned `pages`.
Measured(fn, pages) ==
    /\ call' = [call EXCEPT !.fn = fn, !.result = Some(pages),
                            !.prev = [call EXCEPT !.prev = Absent]]
    /\ UNCHANGED <<debug_assertions, source, views, boot_memory, notRegion>>

FirstPage ==
    /\ call # Absent /\ call.fn = "new"
    /\ Measured("first_page", first_page(call.self))

LastPage ==
    /\ call # Absent /\ call.fn = "new"
    /\ Measured("last_page", last_page(call.self))

PageCount ==
    /\ call # Absent /\ call.fn = "new"
    /\ Measured("page_count", page_count(call.self))

ChunkPageCount ==
    /\ call # Absent /\ call.fn = "new"
    /\ Measured("MemoryChunk::page_count", MemoryChunk_page_count(call.self))

NextPages ==
    \/ FirstPage
    \/ LastPage
    \/ PageCount
    \/ ChunkPageCount

SpecPages == InitPages /\ [][NextPages]_vars

\* C38: for a region whose base address and length are multiples of 4096, with
\* length > 0, page_count() is length / 4096.
C38_PageCount ==
    (/\ call # Absent
     /\ call.fn \in {"page_count", "MemoryChunk::page_count"}
     /\ call.self.base_addr % 4096 = 0
     /\ call.self.length % 4096 = 0
     /\ call.self.length > 0)
        => call.result.value = call.self.length \div 4096

-----------------------------------------------------------------------------
(* Part B, continued: BitfieldExt::is_nth_bit_set on its own.                *)

\* The words it is called on: every combination of the flag bits.
Words == SUBSET FlagBits

\* is_nth_bit_set(bit) is called on a word, for every bit index of a u32.
IsNthBitSet ==
    /\ access = Absent
    /\ \E word \in Words : \E bit \in 0..(U32Width - 1) :
        access' = [constructed |-> TRUE, fn |-> "is_nth_bit_set", word |-> word,
                      bit |-> bit, result |-> is_nth_bit_set(word, bit)]
    /\ UNCHANGED <<debug_assertions, boot, notBoot>>

NextBits == IsNthBitSet

SpecBits == InitBoot /\ [][NextBits]_vars

\* C40: w.is_nth_bit_set(n) is true exactly when bit n of w is set.
C40_IsNthBitSet ==
    (access # Absent /\ access.fn = "is_nth_bit_set")
        => (access.result <=> access.bit \in access.word)

-----------------------------------------------------------------------------
(* Part F: SimplePageFrameAllocator of kernel/src/boot/x86.rs.               *)

\* The highest page number of a range.
MaxPage == 4

\* SimplePageFrameAllocator::new
SimplePageFrameAllocator_new(range) == [range |-> range]

\* Fault: the start of the range is not moved.
alloc_page_repeating(self) == [self |-> self, result |-> Some(self.range.start)]

\* SimplePageFrameAllocator::alloc_page: the allocator after the call and the
\* returned Option.
alloc_page(self) ==
    IF self.range.start < self.range.end
    THEN [self |-> [self EXCEPT !.range.start = @ + 1],
          result |-> Some(self.range.start)]
    ELSE [self |-> self, result |-> NoneView]

\* The ranges it is built over: start..end, empty when start >= end.
PageRanges == [start : 0..MaxPage, end : 0..MaxPage]

InitFrames ==
    /\ debug_assertions \in BOOLEAN
    /\ frames = Absent
    /\ cpu = Absent
    /\ AllocAbsent
    /\ HeaderAbsent
    /\ BootAbsent
    /\ MmapAbsent
    /\ RegionAbsent

\* The allocator with the record of its calls: the range it was built over,
\* the pages handed out in order, the latest result, and the number of calls
\* that returned None.
FramesNew ==
    /\ frames = Absent
    /\ \E range \in PageRanges :
           frames' = [constructed |-> TRUE,
                      range |-> SimplePageFrameAllocator_new(range).range,
                      initial |-> range, handed |-> <<>>, result |-> NoneView,
                      nones |-> 0]
    /\ UNCHANGED <<debug_assertions, cpu, allocVars, headerVars, bootVars, mmapVars,
                   regionVars>>

AllocPage ==
    /\ frames # Absent
    /\ Len(frames.handed) <= MaxPage
    /\ frames.nones < MaxNones
    /\ LET r == alloc_page([range |-> frames.range])
       IN  frames' = [frames EXCEPT
                        !.range = r.self.range,
                        !.handed = IF r.result.some THEN Append(@, r.result.value) ELSE @,
                        !.result = r.result,
                        !.nones = IF r.result.some THEN @ ELSE @ + 1]
    /\ UNCHANGED <<debug_assertions, cpu, allocVars, headerVars, bootVars, mmapVars,
                   regionVars>>

NextFrames ==
    \/ FramesNew
    \/ AllocPage

SpecFrames == InitFrames /\ [][NextFrames]_vars

\* The pages of the range start..end, in order.
PagesOf(range) ==
    [i \in 1..(IF range.start < range.end THEN range.end - range.start ELSE 0)
        |-> range.start + i - 1]

\* C39: the pages alloc_page handed out are strictly increasing and lie in the
\* initial range; a call returns None only when every page of the range has
\* been handed out, and every call after one that returned None returns None.
C39_PagesInOrderOnce ==
    [][frames' # Absent
          => /\ \A i \in 1..Len(frames'.handed) :
                    /\ frames'.handed[i] >= frames'.initial.start
                    /\ frames'.handed[i] < frames'.initial.end
                    /\ i > 1 => frames'.handed[i - 1] < frames'.handed[i]
             /\ frames'.nones > 0 => frames'.handed = PagesOf(frames'.initial)
             /\ (frames # Absent /\ frames.nones > 0)
                    => (~frames'.result.some /\ frames'.handed = frames.handed)]_vars

\* C39 witness: a range of three pages was handed out page by page, and two
\* calls after that returned None.
C39_Witness ==
    /\ frames # Absent
    /\ frames.initial.end - frames.initial.start = 3
    /\ Len(frames.handed) = 3
    /\ frames.nones = 2

-----------------------------------------------------------------------------
(* Part G: the boot sequence: multiboot_main of kernel/src/boot/x86.rs and   *)
(* of src/boot/x86.rs, the panic handler and halt_core.                      *)

\* The iterations of the idle loop of halt_core that are followed.
MaxIdle == 2

\* Multiboot::from_addr: the magic word is 0x2BADB002 and the pointer is
\* non-null and aligned to the record, or the boot is aborted.
from_addr(magic, mb_ptr, pointee) ==
    IF magic # U32(\H2BADB002) \/ mb_ptr = 0 \/ mb_ptr % BootInfoAlign # 0
    THEN Panic("Multiboot handshake failed")
    ELSE View(pointee)

\* Multiboot::memory_map: present iff its guard bit is set and the pointer is
\* non-null.
Multiboot_memory_map(self) ==
    IF 6 \in self.flags /\ self.mmap # 0
    THEN Some(Slice(self.mmap, self.mmap_length)) ELSE NoneView

\* The region a RangeFilter yields for one region of the wrapped iterator:
\* the region clipped, or None when it does not overlap.
Yield(self, region) ==
    RangeFilter_next(self, [constructed |-> TRUE, regions |-> <<region>>, pos |-> 1]).item

\* .map(Into::into).split_once(0x100_0000) of kernel/src/boot/x86.rs: the
\* regions that available_mem, the second of the two filters, yields.
available_mem(entries) ==
    LET made == split_once([constructed |-> TRUE,
                            regions |-> [i \in 1..Len(entries) |->
                                            MemoryRegion_from(entries[i])],
                            pos |-> 1],
                           16 * MiB)
        items == [i \in 1..Len(entries) |->
                     Yield(made.filters[2], made.iters[made.filters[2].iter].regions[i])]
        kept == SelectSeq(items, LAMBDA item : item.some)
    IN  [i \in 1..Len(kept) |-> kept[i].value]

\* Fault: interrupts are left as they were.
irq_disable_skipped(interrupts) == interrupts

\* irq_disable: cli clears the interrupt flag.
irq_disable(interrupts) == FALSE

\* The core appends `done` to the steps it has taken and goes on at `pc`.
Step(core, done, pc) == [core EXCEPT !.steps = @ \o done, !.pc = pc]

\* The panic handler is entered with the message of the failure.
Panicking(core, done, message) ==
    [Step(core, done, "panic") EXCEPT !.message = message]

\* The memory maps behind the mmap pointer, base and length in MiB: none, a
\* region inside the boot window, one below 16 MiB, a reserved one inside the
\* window, and one below 16 MiB followed by one across the whole window.
MainMaps ==
    {<<>>,
     <<[base_addr |-> 48 * MiB, length |-> 16 * MiB, kind |-> "Available"]>>,
     <<[base_addr |-> 0, length |-> 8 * MiB, kind |-> "Available"]>>,
     <<[base_addr |-> 48 * MiB, length |-> 16 * MiB, kind |-> "Reserved"]>>,
     <<[base_addr |-> 0, length |-> 8 * MiB, kind |-> "Available"],
       [base_addr |-> 16 * MiB, length |-> 144 * MiB, kind |-> "Available"]>>}

\* The records the bootloader writes: the guard bits of the command line and
\* of the memory map set or not, the mmap pointer null or not.
MainInfos ==
    [flags : SUBSET {2, 6}, cmdline : {36864}, mods_count : {0}, mods_addr : {0},
     mmap_length : {48}, mmap : {0, 45056}]

InitMain ==
    /\ debug_assertions \in BOOLEAN
    /\ cpu = Absent
    /\ frames = Absent
    /\ AllocAbsent
    /\ HeaderAbsent
    /\ BootAbsent
    /\ MmapAbsent
    /\ RegionAbsent

notKernel == <<allocVars, headerVars, bootVars, mmapVars, regionVars>>

\* multiboot_start: the bootloader jumps to the entry point with the magic in
\* eax and the pointer in ebx, and the trampoline calls multiboot_main. The
\* interrupt flag is what the bootloader left.
MultibootStart ==
    /\ cpu = Absent
    /\ \E variant \in {"kernel", "src"} : \E magic \in {U32(\H2BADB002), U32(\H1BADB002)} :
       \E mb_ptr \in {0, 2, 4096} : \E info \in MainInfos : \E entries \in MainMaps :
       \E interrupts \in BOOLEAN :
           cpu' = [constructed |-> TRUE, build |-> variant, magic |-> magic,
                   mb_ptr |-> mb_ptr, info |-> info, entries |-> entries,
                   at_entry |-> interrupts, interrupts |-> interrupts,
                   pc |-> "multiboot_main", steps |-> <<>>, message |-> "",
                   map |-> <<>>, idle |-> 0]
    /\ UNCHANGED <<debug_assertions, frames, notKernel>>

\* crate::logging::initialize_kernel_log() and the two banner lines.
InitializeKernelLog ==
    /\ cpu # Absent
    /\ cpu.pc = "multiboot_main"
    /\ cpu' = Step(cpu, <<"initialize_kernel_log">>, "handshake")
    /\ UNCHANGED <<debug_assertions, frames, notKernel>>

\* Multiboot::from_addr(magic, mb_ptr) or BootInfo::from_ptr(magic, mb_ptr);
\* a failed assertion enters the panic handler.
Handshake ==
    /\ cpu # Absent
    /\ cpu.pc = "handshake"
    /\ LET r == IF cpu.build = "kernel"
                THEN from_addr(cpu.magic, cpu.mb_ptr, cpu.info)
                ELSE from_ptr(cpu.magic, cpu.mb_ptr, cpu.info)
       IN  cpu' = IF r.outcome = "panic"
                  THEN Panicking(cpu, <<"handshake">>, r.message)
                  ELSE Step(cpu, <<"handshake">>, "memory_map")
    /\ UNCHANGED <<debug_assertions, frames, notKernel>>

\* multiboot.memory_map().expect(..): None enters the panic handler. Some is
\* the iterator handed to bootstrap_subsystem, kept as the regions it yields:
\* available_mem in kernel/src/boot/x86.rs, the whole map in src/boot/x86.rs.
ExpectMemoryMap ==
    /\ cpu # Absent
    /\ cpu.pc = "memory_map"
    /\ LET r == IF cpu.build = "kernel"
                THEN Multiboot_memory_map(cpu.info)
                ELSE memory_map(cpu.info)
       IN  cpu' = IF r.some
                  THEN [Step(cpu, <<"memory_map">>, "bootstrap_subsystem") EXCEPT
                           !.map = IF cpu.build = "kernel"
                                   THEN available_mem(cpu.entries)
                                   ELSE [i \in 1..Len(cpu.entries) |->
                                            MemoryRegion_from(cpu.entries[i])]]
                  ELSE Panicking(cpu, <<"memory_map">>,
                                 IF cpu.build = "kernel"
                                 THEN "Need multiboot memory map to be present"
                                 ELSE "Expected multiboot memory map to be present")
    /\ UNCHANGED <<debug_assertions, frames, notKernel>>

\* crate::mem::bootstrap_subsystem(..): the map is logged and the boot window
\* selected; not finding one enters the panic handler.
BootstrapMain ==
    /\ cpu # Absent
    /\ cpu.pc = "bootstrap_subsystem"
    /\ LET r == bootstrap_subsystem(cpu.map)
       IN  cpu' = IF r.outcome = "panic"
                  THEN Panicking(cpu, <<"log_memory_map", "select">>, r.message)
                  ELSE Step(cpu, <<"log_memory_map", "select">>, "halt_core")
    /\ UNCHANGED <<debug_assertions, frames, notKernel>>

\* The panic handler: log::error!(..) and then arch::halt_core().
PanicHandler ==
    /\ cpu # Absent
    /\ cpu.pc = "panic"
    /\ cpu' = Step(cpu, <<"log_panic">>, "halt_core")
    /\ UNCHANGED <<debug_assertions, frames, notKernel>>

\* halt_core: irq_disable() and then the loop.
HaltCore ==
    /\ cpu # Absent
    /\ cpu.pc = "halt_core"
    /\ cpu' = [Step(cpu, <<"irq_disable">>, "idle") EXCEPT
                  !.interrupts = irq_disable(cpu.interrupts)]
    /\ UNCHANGED <<debug_assertions, frames, notKernel>>

\* One iteration of loop { wait_for_irq(); }: hlt, and when the core is woken
\* the loop executes it again.
WaitForIrq ==
    /\ cpu # Absent
    /\ cpu.pc = "idle"
    /\ cpu.idle < MaxIdle
    /\ cpu' = [cpu EXCEPT !.idle = @ + 1]
    /\ UNCHANGED <<debug_assertions, frames, notKernel>>

NextMain ==
    \/ MultibootStart
    \/ InitializeKernelLog
    \/ Handshake
    \/ ExpectMemoryMap
    \/ BootstrapMain
    \/ PanicHandler
    \/ HaltCore
    \/ WaitForIrq

SpecMain == InitMain /\ [][NextMain]_vars

\* The core is one sequential processor: while an instruction is left to
\* execute, it executes it.
SpecMainFair == SpecMain /\ WF_vars(NextMain)

-----------------------------------------------------------------------------
(* Properties of the boot sequence *)

\* The place of a step of multiboot_main in the order of its steps; the steps
\* of the panic handler and of halt_core have none.
Rank(step) ==
    CASE step = "initialize_kernel_log" -> 1
      [] step = "handshake" -> 2
      [] step = "memory_map" -> 3
      [] step = "log_memory_map" -> 4
      [] step = "select" -> 5
      [] OTHER -> 6

\* The bootloader's record has no memory map: the guard bit 6 of the flags is
\* clear or the mmap pointer is null.
MapMissing(info) == 6 \notin info.flags \/ info.mmap = 0

\* C31: the steps of multiboot_main are taken in the order log sink,
\* handshake, memory map, log of the map, selection of the boot window; the
\* memory map is accessed only when the magic and the pointer are valid; and
\* when the record has no memory map, bootstrap_subsystem is not entered.
C31_BootOrder ==
    cpu # Absent
        => /\ \A i, j \in 1..Len(cpu.steps) :
                  (i < j /\ Rank(cpu.steps[j]) < 6) => Rank(cpu.steps[i]) < Rank(cpu.steps[j])
           /\ (\E i \in 1..Len(cpu.steps) : cpu.steps[i] = "memory_map")
                  => /\ cpu.magic = U32(\H2BADB002)
                     /\ cpu.mb_ptr # 0
                     /\ cpu.mb_ptr % BootInfoAlign = 0
           /\ MapMissing(cpu.info)
                  => \A i \in 1..Len(cpu.steps) : cpu.steps[i] # "log_memory_map"

\* C32: every boot ends in the idle loop of halt_core and stays there; the
\* panic handler logs and then enters halt_core; interrupts are masked in the
\* idle loop; no step leaves the loop.
C32_EndsHalted ==
    /\ <>[](cpu # Absent /\ cpu.pc = "idle")
    /\ [](cpu # Absent /\ cpu.pc = "idle" => ~cpu.interrupts)
    /\ [][(cpu # Absent /\ cpu.pc = "panic")
              => /\ cpu'.pc = "halt_core"
                 /\ cpu'.steps = Append(cpu.steps, "log_panic")]_vars
    /\ [][(cpu # Absent /\ cpu.pc = "idle")
              => /\ cpu'.pc = "idle"
                 /\ cpu'.steps = cpu.steps]_vars

\* C32 witness: a boot entered with interrupts enabled panicked, the handler
\* logged, and the core has idled with interrupts masked.
C32_Witness ==
    /\ cpu # Absent
    /\ cpu.at_entry
    /\ cpu.pc = "idle"
    /\ cpu.idle = MaxIdle
    /\ ~cpu.interrupts
    /\ \E i \in 1..Len(cpu.steps) : cpu.steps[i] = "log_panic"

====
